---- MODULE Spec2Model ----
(***************************************************************************)
(* Chat backend: conversation store, read-state tracker, event dispatcher  *)
(* and connection registry.                                                *)
(*                                                                         *)
(* The handlers are async functions.  Every `await prisma...` is one       *)
(* atomic persistence step; the synchronous code that follows an await     *)
(* (reading `new Date()`, broadcasting, replying) runs in the same step as *)
(* the awaited operation.  Requests are independent tasks; the *Seq        *)
(* specifications admit one request at a time, the others MaxTasks.        *)
(***************************************************************************)
EXTENDS Integers, Sequences, FiniteSets, TLC

\* ------------------------------------------------------------- bounds
NumUsers == 3
MaxConvs == 2
MaxMsgs == 2
MaxTime == 2
MaxTasks == 2
MaxConns == 2
\* persistence failures of createGroup a run may leave behind
MaxFaults == 1

Users == 1..NumUsers
\* a user id that no User row has
GhostUser == NumUsers + 1
Conns == 1..MaxConns
Slots == 1..MaxTasks

\* null of a nullable DateTime / Int column; timestamps and ids start at 1
NoTime == 0
NoId == 0
\* an optional request field that is not given
Absent == -1

VARIABLES
    now,            \* the clock read by new Date() and by @default(now())
    conversations,  \* Conversation rows, index = autoincrement id
    participants,   \* ConversationParticipant rows
    messages,       \* Message rows, index = autoincrement id
    groups,         \* Group rows with their GroupMember rows, index = id
    userStatus,     \* User.status and User.lastActiveAt
    pending,        \* user.update calls issued and not yet applied
    connections,    \* the registry: userId -> set of sockets
    sockets,        \* every socket's owner and readyState
    tasks,          \* the requests in flight
    firstDirect,    \* history: per pair of users, the first createDirect reply
    held            \* history: the (userId, socket) pairs added and not removed since

vars == <<now, conversations, participants, messages, groups, userStatus, pending,
          connections, sockets, tasks, firstDirect, held>>

\* the chat tables, the presence columns with their writes in flight, the live side
chat == <<conversations, participants, messages, groups>>
presence == <<userStatus, pending>>
live == <<connections, sockets>>
history == <<firstDirect, held>>

\* ------------------------------------------------------------- tasks
NoSnapshot == [conversations |-> <<>>, participants |-> {}, messages |-> <<>>]

\* the persisted state a sequential request starts from, kept with the task so
\* that its effect can be stated when it replies (requests that overlap keep none)
Snapshot(cap) ==
    IF cap = 1
    THEN [conversations |-> conversations, participants |-> participants,
          messages |-> messages]
    ELSE NoSnapshot

NoEvent == [type |-> "none"]

NoBody == [type |-> "none"]

\* no createDirect has replied for the pair yet
NoReply == [id |-> NoId, userId |-> NoId]

Pairs == {{a, b} : a, b \in Users} \ {{a} : a \in Users}

\* a request: its inputs (userId, conversationId, arg, ids), the locals that live
\* across its awaits (ts, parts, body), its reply (status, result, body), the event
\* it pushed and how many times each socket was sent it (out); pre, seen and at
\* are history: the tables, the earlier reply and the time the request started with
Idle ==
    [op |-> "idle", pc |-> "idle", userId |-> NoId, conversationId |-> NoId,
     arg |-> Absent, ids |-> {}, ts |-> NoTime, parts |-> {},
     status |-> "none", result |-> NoId, body |-> NoBody, event |-> NoEvent,
     out |-> [w \in Conns |-> 0], pre |-> NoSnapshot, seen |-> NoReply, at |-> NoTime]

InFlight == {s \in Slots : tasks[s].op # "idle"}

Running(ops) == {s \in Slots : tasks[s].op \in ops /\ tasks[s].pc # "done"}

\* a request starts in the lowest free slot when fewer than cap are in flight
FreeSlot(s, cap) ==
    /\ tasks[s].op = "idle"
    /\ Cardinality(InFlight) < cap
    /\ \A r \in Slots : r < s => tasks[r].op # "idle"

Reply(t, status, result) == [t EXCEPT !.pc = "done", !.status = status, !.result = result]

\* ------------------------------------------------------------- clock
Tick ==
    /\ now < MaxTime
    /\ now' = now + 1
    /\ UNCHANGED <<history, chat, presence, live, tasks>>

\* ------------------------------------------------------------- dispatcher
\* faulty variant: every registered socket is sent the event, whatever its readyState
broadcastToUsersAnyState(userIds) ==
    [w \in Conns |-> Cardinality({u \in userIds : u \in Users /\ w \in connections[u]})]

\* faulty variant: every socket served is sent the event twice
broadcastToUsersTwice(userIds) ==
    [w \in Conns |->
        IF sockets[w].readyState = "OPEN"
        THEN 2 * Cardinality({u \in userIds : u \in Users /\ w \in connections[u]})
        ELSE 0]

\* how many times broadcastToUsers(userIds, message) calls ws.send on socket w
broadcastToUsers(userIds) ==
    [w \in Conns |->
        IF sockets[w].readyState = "OPEN"
        THEN Cardinality({u \in userIds : u \in Users /\ w \in connections[u]})
        ELSE 0]

broadcastToUser(userId) == broadcastToUsers({userId})

\* ------------------------------------------------------------- queries
ConvIds == 1..Len(conversations)
MsgIds == 1..Len(messages)

ParticipantIds(c) == {p.userId : p \in {q \in participants : q.conversationId = c}}

ParticipantRow(c, u) == {p \in participants : p.conversationId = c /\ p.userId = u}

\* ------------------------------------------------------------- createDirect
\* faulty variant: the lookup finds the conversation only for the caller with the lower id
ExistingDirectOneWay(userId, targetUserId) ==
    {c \in ConvIds :
        /\ conversations[c].type = "direct"
        /\ ParticipantIds(c) = {userId, targetUserId}
        /\ userId < targetUserId}

\* conversation.findFirst of createDirectConversation
ExistingDirect(userId, targetUserId) ==
    {c \in ConvIds :
        /\ conversations[c].type = "direct"
        /\ \A u \in ParticipantIds(c) : u \in {userId, targetUserId}
        /\ userId \in ParticipantIds(c)
        /\ targetUserId \in ParticipantIds(c)}

Creators == Running({"createDirect", "createGroup"})

\* faulty variant: the self-target check is missing
CreateDirectStartNoSelfCheck(cap) ==
    \E s \in Slots, userId \in Users, targetUserId \in Users \cup {GhostUser} :
        /\ FreeSlot(s, cap)
        /\ Len(conversations) + Cardinality(Creators) < MaxConvs
        /\ LET t == [Idle EXCEPT !.op = "createDirect", !.userId = userId,
                                 !.arg = targetUserId, !.pre = Snapshot(cap)]
           IN tasks' = [tasks EXCEPT ![s] =
                IF targetUserId \notin Users THEN Reply(t, "NotFound", NoId)
                ELSE [t EXCEPT !.pc = "findExisting"]]
        /\ UNCHANGED <<now, history, chat, presence, live>>

CreateDirectStart(cap) ==
    \E s \in Slots, userId \in Users, targetUserId \in Users \cup {GhostUser} :
        /\ FreeSlot(s, cap)
        /\ Len(conversations) + Cardinality(Creators) < MaxConvs
        /\ LET t == [Idle EXCEPT !.op = "createDirect", !.userId = userId,
                                 !.arg = targetUserId, !.pre = Snapshot(cap),
                                 !.seen = IF {userId, targetUserId} \in Pairs
                                          THEN firstDirect[{userId, targetUserId}]
                                          ELSE NoReply]
           IN tasks' = [tasks EXCEPT ![s] =
                IF userId = targetUserId THEN Reply(t, "InvalidArgument", NoId)
                ELSE IF targetUserId \notin Users THEN Reply(t, "NotFound", NoId)
                ELSE [t EXCEPT !.pc = "findExisting"]]
        /\ UNCHANGED <<now, history, chat, presence, live>>

\* history: the first successful reply for a pair is remembered
Replied(t, c) ==
    LET pair == {t.userId, t.arg}
    IN IF firstDirect[pair] = NoReply
       THEN [firstDirect EXCEPT ![pair] = [id |-> c, userId |-> t.userId]]
       ELSE firstDirect

CreateDirectFind ==
    \E s \in Slots :
        /\ tasks[s].op = "createDirect" /\ tasks[s].pc = "findExisting"
        /\ LET found == ExistingDirect(tasks[s].userId, tasks[s].arg)
           IN IF found = {}
              THEN /\ tasks' = [tasks EXCEPT ![s].pc = "create"]
                   /\ UNCHANGED firstDirect
              ELSE \E c \in found :
                    /\ tasks' = [tasks EXCEPT ![s] = Reply(@, "ok", c)]
                    /\ firstDirect' = Replied(tasks[s], c)
        /\ UNCHANGED <<now, held, chat, presence, live>>

NewConversation(type, groupId) == [type |-> type, groupId |-> groupId, lastMessageAt |-> NoTime]

NewParticipants(c, userIds) ==
    {[conversationId |-> c, userId |-> u, lastReadAt |-> now] : u \in userIds}

\* faulty variant: only the caller's participant row is created
CreateDirectCreateOneRow ==
    \E s \in Slots :
        /\ tasks[s].op = "createDirect" /\ tasks[s].pc = "create"
        /\ LET c == Len(conversations) + 1
           IN /\ conversations' = Append(conversations, NewConversation("direct", NoId))
              /\ participants' = participants \cup NewParticipants(c, {tasks[s].userId})
              /\ tasks' = [tasks EXCEPT ![s] = Reply(@, "ok", c)]
              /\ firstDirect' = Replied(tasks[s], c)
        /\ UNCHANGED <<now, held, messages, groups, presence, live>>

CreateDirectCreate ==
    \E s \in Slots :
        /\ tasks[s].op = "createDirect" /\ tasks[s].pc = "create"
        /\ LET c == Len(conversations) + 1
           IN /\ conversations' = Append(conversations, NewConversation("direct", NoId))
              /\ participants' = participants \cup NewParticipants(c, {tasks[s].userId, tasks[s].arg})
              /\ tasks' = [tasks EXCEPT ![s] = Reply(@, "ok", c)]
              /\ firstDirect' = Replied(tasks[s], c)
        /\ UNCHANGED <<now, held, messages, groups, presence, live>>

\* ------------------------------------------------------------- createGroup
\* the userIds bodies tried: the creator left out, and the creator included
GroupInputs == {{2, 3}, {1, 2}}

CreateGroupStart(cap) ==
    \E s \in Slots, userId \in Users, userIds \in GroupInputs :
        /\ FreeSlot(s, cap)
        /\ Len(conversations) + Cardinality(Creators) < MaxConvs
        /\ LET members == userIds \cup {userId}
           IN /\ groups' = Append(groups,
                    [creatorId |-> userId,
                     members |-> {[userId |-> m, role |-> IF m = userId THEN "owner" ELSE "member"] :
                                    m \in members}])
              /\ tasks' = [tasks EXCEPT ![s] =
                    [Idle EXCEPT !.op = "createGroup", !.pc = "createConversation",
                                 !.userId = userId, !.ids = members,
                                 !.result = Len(groups) + 1, !.pre = Snapshot(cap)]]
        /\ UNCHANGED <<now, history, conversations, participants, messages, presence, live>>

\* faulty variant: the creator is notified like every other member
CreateGroupConversationNotifiesAll ==
    \E s \in Slots :
        /\ tasks[s].op = "createGroup" /\ tasks[s].pc = "createConversation"
        /\ LET c == Len(conversations) + 1
               t == tasks[s]
           IN /\ conversations' = Append(conversations, NewConversation("group", t.result))
              /\ participants' = participants \cup NewParticipants(c, t.ids)
              /\ tasks' = [tasks EXCEPT ![s] =
                    [Reply(t, "ok", c) EXCEPT
                        !.event = [type |-> "group_conversation_created", conversationId |-> c],
                        !.out = broadcastToUsers(t.ids)]]
        /\ UNCHANGED <<now, history, messages, groups, presence, live>>

CreateGroupConversation ==
    \E s \in Slots :
        /\ tasks[s].op = "createGroup" /\ tasks[s].pc = "createConversation"
        /\ LET c == Len(conversations) + 1
               t == tasks[s]
           IN /\ conversations' = Append(conversations, NewConversation("group", t.result))
              /\ participants' = participants \cup NewParticipants(c, t.ids)
              /\ tasks' = [tasks EXCEPT ![s] =
                    [Reply(t, "ok", c) EXCEPT
                        !.event = [type |-> "group_conversation_created", conversationId |-> c],
                        !.out = broadcastToUsers(t.ids \ {t.userId})]]
        /\ UNCHANGED <<now, history, messages, groups, presence, live>>

\* group.create rejects: nothing is written, the catch replies 500
CreateGroupFails(cap) ==
    \E s \in Slots, userId \in Users, userIds \in GroupInputs :
        /\ FreeSlot(s, cap)
        /\ tasks' = [tasks EXCEPT ![s] =
                Reply([Idle EXCEPT !.op = "createGroup", !.userId = userId,
                                   !.ids = userIds \cup {userId},
                                   !.pre = Snapshot(cap)],
                      "Internal", NoId)]
        /\ UNCHANGED <<now, history, chat, presence, live>>

\* conversation.create rejects after group.create succeeded: the catch replies
\* 500, the group and its members stay
CreateGroupConversationFails ==
    \E s \in Slots :
        /\ tasks[s].op = "createGroup" /\ tasks[s].pc = "createConversation"
        /\ Len(groups) - Len(conversations) <= MaxFaults
        /\ tasks' = [tasks EXCEPT ![s] =
                [Reply(tasks[s], "Internal", NoId) EXCEPT !.arg = tasks[s].result]]
        /\ UNCHANGED <<now, history, chat, presence, live>>

\* ------------------------------------------------------------- sendMessage
Contents == {"hi"}

NullContent == "null"

\* callStatus of a message that is not a call (null)
NoCall == "null"

\* `if (replyToId)`: an id that is given and is not 0
Truthy(id) == id # Absent /\ id # 0

Senders ==
    {s \in Slots : /\ tasks[s].op \in {"sendMessage", "initiateCall"}
                   /\ tasks[s].pc \in {"checkReply", "create"}}

\* the message as the handler formats it for the reply and for the event
FormattedMessage(id, m) ==
    [type |-> "message", id |-> id, conversationId |-> m.conversationId,
     senderId |-> m.senderId, content |-> m.content, status |-> m.status,
     replyToId |-> m.replyToId, createdAt |-> m.createdAt]

\* every replyToId a request may carry: none, 0, a message id
ReplyIds == {Absent} \cup (0..MaxMsgs)

SendStart(cap, replyIds) ==
    \E s \in Slots, userId \in Users, conversationId \in 1..(MaxConvs + 1),
       content \in Contents, replyToId \in replyIds :
        /\ FreeSlot(s, cap)
        /\ Len(messages) + Cardinality(Senders) < MaxMsgs
        /\ LET t == [Idle EXCEPT !.op = "sendMessage", !.userId = userId,
                                 !.conversationId = conversationId, !.arg = replyToId,
                                 !.body = [type |-> "draft", content |-> content],
                                 !.pre = Snapshot(cap)]
           IN tasks' = [tasks EXCEPT ![s] =
                IF conversationId \notin ConvIds THEN Reply(t, "NotFound", NoId)
                ELSE IF userId \notin ParticipantIds(conversationId)
                     THEN Reply(t, "Forbidden", NoId)
                ELSE [t EXCEPT !.parts = ParticipantIds(conversationId),
                               !.pc = IF Truthy(replyToId) THEN "checkReply" ELSE "create"]]
        /\ UNCHANGED <<now, history, chat, presence, live>>

SendCheckReply ==
    \E s \in Slots :
        /\ tasks[s].op = "sendMessage" /\ tasks[s].pc = "checkReply"
        /\ LET t == tasks[s]
           IN tasks' = [tasks EXCEPT ![s] =
                IF t.arg \notin MsgIds \/ messages[t.arg].conversationId # t.conversationId
                THEN Reply(t, "InvalidArgument", NoId)
                ELSE [t EXCEPT !.pc = "create"]]
        /\ UNCHANGED <<now, history, chat, presence, live>>

\* message.create; replyToId is a foreign key to Message.id
SendCreate ==
    \E s \in Slots :
        /\ tasks[s].op = "sendMessage" /\ tasks[s].pc = "create"
        /\ LET t == tasks[s]
               id == Len(messages) + 1
               m == [conversationId |-> t.conversationId, senderId |-> t.userId,
                     content |-> t.body.content, type |-> "text",
                     replyToId |-> IF t.arg = Absent THEN NoId ELSE t.arg,
                     status |-> "sent", createdAt |-> now, deletedAt |-> NoTime,
                     receiverId |-> NoId, callStatus |-> NoCall,
                     callStartedAt |-> NoTime, callEndedAt |-> NoTime,
                     callDuration |-> Absent]
           IN IF t.arg # Absent /\ t.arg \notin MsgIds
              THEN /\ tasks' = [tasks EXCEPT ![s] = Reply(t, "Internal", NoId)]
                   /\ UNCHANGED messages
              ELSE /\ messages' = Append(messages, m)
                   /\ tasks' = [tasks EXCEPT ![s] =
                        [t EXCEPT !.pc = "updateConversation", !.result = id,
                                  !.body = FormattedMessage(id, m)]]
        /\ UNCHANGED <<now, history, conversations, participants, groups, presence, live>>

SendUpdateConversation ==
    \E s \in Slots :
        /\ tasks[s].op = "sendMessage" /\ tasks[s].pc = "updateConversation"
        /\ conversations' = [conversations EXCEPT
                ![tasks[s].conversationId].lastMessageAt = tasks[s].body.createdAt]
        /\ tasks' = [tasks EXCEPT ![s].pc = "updateParticipant", ![s].ts = now]
        /\ UNCHANGED <<now, history, participants, messages, groups, presence, live>>

SetLastReadAt(c, u, at) ==
    {IF p.conversationId = c /\ p.userId = u THEN [p EXCEPT !.lastReadAt = at] ELSE p :
        p \in participants}

SendUpdateParticipant ==
    \E s \in Slots :
        /\ tasks[s].op = "sendMessage" /\ tasks[s].pc = "updateParticipant"
        /\ LET t == tasks[s]
           IN /\ participants' = SetLastReadAt(t.conversationId, t.userId, t.ts)
              /\ tasks' = [tasks EXCEPT ![s] =
                    [Reply(t, "ok", t.result) EXCEPT
                        !.event = [type |-> "new_message", data |-> t.body],
                        !.out = broadcastToUsers(t.parts \ {t.userId})]]
        /\ UNCHANGED <<now, history, conversations, messages, groups, presence, live>>

\* conversation.update rejects after message.create succeeded: the catch replies
\* 500, the message row stays
SendUpdateConversationFails ==
    \E s \in Slots :
        /\ tasks[s].op = "sendMessage" /\ tasks[s].pc = "updateConversation"
        /\ tasks' = [tasks EXCEPT ![s] = Reply(tasks[s], "Internal", NoId)]
        /\ UNCHANGED <<now, history, chat, presence, live>>

\* conversationParticipant.update rejects after the first two writes succeeded
SendUpdateParticipantFails ==
    \E s \in Slots :
        /\ tasks[s].op = "sendMessage" /\ tasks[s].pc = "updateParticipant"
        /\ tasks' = [tasks EXCEPT ![s] = Reply(tasks[s], "Internal", NoId)]
        /\ UNCHANGED <<now, history, chat, presence, live>>

\* ws.send throws on socket w during the broadcast of sendMessage: forEach stops,
\* the handler's catch replies 500.  Sockets of a user are served in the order
\* they were added; the users before w's owner are any of the other targets.
SendUpdateParticipantThrows ==
    \E s \in Slots, w \in Conns :
        /\ tasks[s].op = "sendMessage" /\ tasks[s].pc = "updateParticipant"
        /\ LET t == tasks[s]
               targets == t.parts \ {t.userId}
               owner == sockets[w].userId
           IN /\ sockets[w].readyState = "OPEN"
              /\ owner \in targets /\ w \in connections[owner]
              /\ participants' = SetLastReadAt(t.conversationId, t.userId, t.ts)
              /\ \E served \in SUBSET (targets \ {owner}) :
                    tasks' = [tasks EXCEPT ![s] =
                        [Reply(t, "Internal", NoId) EXCEPT
                            !.event = [type |-> "new_message", data |-> t.body],
                            !.ids = {w},
                            !.out = [v \in Conns |->
                                IF /\ sockets[v].readyState = "OPEN"
                                   /\ \/ \E u \in served : v \in connections[u]
                                      \/ v \in connections[owner] /\ v < w
                                THEN 1 ELSE 0]]]
        /\ UNCHANGED <<now, history, conversations, messages, groups, presence, live>>

\* ------------------------------------------------------------- readMessages
ReadStart(cap) ==
    \E s \in Slots, userId \in Users, conversationId \in 1..(MaxConvs + 1),
       lastReadMessageId \in {Absent} \cup (0..MaxMsgs) :
        /\ FreeSlot(s, cap)
        /\ LET t == [Idle EXCEPT !.op = "readMessages", !.userId = userId,
                                 !.conversationId = conversationId,
                                 !.arg = lastReadMessageId, !.pre = Snapshot(cap),
                                 !.at = now]
           IN tasks' = [tasks EXCEPT ![s] =
                IF conversationId \notin ConvIds THEN Reply(t, "NotFound", NoId)
                ELSE [t EXCEPT !.ts = now,
                               !.pc = IF Truthy(lastReadMessageId) THEN "updateMany"
                                      ELSE "updateParticipant"]]
        /\ UNCHANGED <<now, history, chat, presence, live>>

\* faulty variant: the id bound of the updateMany is missing
MarkReadAnyId(c, u, X) ==
    [m \in MsgIds |->
        IF /\ messages[m].conversationId = c
           /\ messages[m].senderId # u
           /\ messages[m].status \in {"sent", "delivered"}
        THEN [messages[m] EXCEPT !.status = "read"]
        ELSE messages[m]]

\* message.updateMany of readMessages
MarkRead(c, u, X) ==
    [m \in MsgIds |->
        IF /\ messages[m].conversationId = c
           /\ m <= X
           /\ messages[m].senderId # u
           /\ messages[m].status \in {"sent", "delivered"}
        THEN [messages[m] EXCEPT !.status = "read"]
        ELSE messages[m]]

ReadUpdateMany ==
    \E s \in Slots :
        /\ tasks[s].op = "readMessages" /\ tasks[s].pc = "updateMany"
        /\ messages' = MarkRead(tasks[s].conversationId, tasks[s].userId, tasks[s].arg)
        /\ tasks' = [tasks EXCEPT ![s].pc = "findLast"]
        /\ UNCHANGED <<now, history, conversations, participants, groups, presence, live>>

\* faulty variant: the createdAt of the message found is not used
ReadFindLastKeepsNow ==
    \E s \in Slots :
        /\ tasks[s].op = "readMessages" /\ tasks[s].pc = "findLast"
        /\ tasks' = [tasks EXCEPT ![s].pc = "updateParticipant"]
        /\ UNCHANGED <<now, history, chat, presence, live>>

\* message.findUnique({id: lastReadMessageId}); updateData.lastReadAt
ReadFindLast ==
    \E s \in Slots :
        /\ tasks[s].op = "readMessages" /\ tasks[s].pc = "findLast"
        /\ tasks' = [tasks EXCEPT ![s].pc = "updateParticipant",
                                  ![s].ts = IF tasks[s].arg \in MsgIds
                                            THEN messages[tasks[s].arg].createdAt
                                            ELSE @]
        /\ UNCHANGED <<now, history, chat, presence, live>>

\* conversationParticipant.update throws when the row is not there
ReadUpdateParticipant ==
    \E s \in Slots :
        /\ tasks[s].op = "readMessages" /\ tasks[s].pc = "updateParticipant"
        /\ LET t == tasks[s]
           IN IF ParticipantRow(t.conversationId, t.userId) = {}
              THEN /\ tasks' = [tasks EXCEPT ![s] = Reply(t, "Internal", NoId)]
                   /\ UNCHANGED participants
              ELSE /\ participants' = SetLastReadAt(t.conversationId, t.userId, t.ts)
                   /\ tasks' = [tasks EXCEPT ![s] =
                        IF Truthy(t.arg) THEN [t EXCEPT !.pc = "notify"]
                        ELSE Reply(t, "ok", NoId)]
        /\ UNCHANGED <<now, history, conversations, messages, groups, presence, live>>

\* faulty variant: the reader is notified of reading their own message
ReadNotifyOwn ==
    \E s \in Slots :
        /\ tasks[s].op = "readMessages" /\ tasks[s].pc = "notify"
        /\ LET t == tasks[s]
           IN tasks' = [tasks EXCEPT ![s] =
                IF t.arg \in MsgIds
                THEN [Reply(t, "ok", NoId) EXCEPT
                        !.event = [type |-> "message_read", messageId |-> t.arg,
                                   conversationId |-> t.conversationId,
                                   readBy |-> t.userId, readAt |-> now],
                        !.out = broadcastToUser(messages[t.arg].senderId)]
                ELSE Reply(t, "ok", NoId)]
        /\ UNCHANGED <<now, history, chat, presence, live>>

\* message.findUnique, broadcastToUser(message.senderId, message_read)
ReadNotify ==
    \E s \in Slots :
        /\ tasks[s].op = "readMessages" /\ tasks[s].pc = "notify"
        /\ LET t == tasks[s]
           IN tasks' = [tasks EXCEPT ![s] =
                IF t.arg \in MsgIds /\ messages[t.arg].senderId # t.userId
                THEN [Reply(t, "ok", NoId) EXCEPT
                        !.event = [type |-> "message_read", messageId |-> t.arg,
                                   conversationId |-> t.conversationId,
                                   readBy |-> t.userId, readAt |-> now],
                        !.out = broadcastToUser(messages[t.arg].senderId)]
                ELSE Reply(t, "ok", NoId)]
        /\ UNCHANGED <<now, history, chat, presence, live>>

\* ------------------------------------------------------------- getMessages
GetMessagesStart(cap) ==
    \E s \in Slots, userId \in Users, conversationId \in 1..(MaxConvs + 1) :
        /\ FreeSlot(s, cap)
        /\ LET t == [Idle EXCEPT !.op = "getMessages", !.userId = userId,
                                 !.conversationId = conversationId, !.pre = Snapshot(cap)]
           IN tasks' = [tasks EXCEPT ![s] =
                IF ParticipantRow(conversationId, userId) = {}
                THEN Reply(t, "NotFound", NoId)
                ELSE [t EXCEPT !.pc = "findMany"]]
        /\ UNCHANGED <<now, history, chat, presence, live>>

\* faulty variant: the query has no deletedAt condition
GetMessagesFindManyWithDeleted ==
    \E s \in Slots :
        /\ tasks[s].op = "getMessages" /\ tasks[s].pc = "findMany"
        /\ LET t == tasks[s]
           IN tasks' = [tasks EXCEPT ![s] =
                [t EXCEPT !.pc = "updateParticipant", !.ts = now,
                          !.body = [type |-> "messages",
                                    ids |-> {m \in MsgIds :
                                        messages[m].conversationId = t.conversationId}]]]
        /\ UNCHANGED <<now, history, chat, presence, live>>

GetMessagesFindMany ==
    \E s \in Slots :
        /\ tasks[s].op = "getMessages" /\ tasks[s].pc = "findMany"
        /\ LET t == tasks[s]
           IN tasks' = [tasks EXCEPT ![s] =
                [t EXCEPT !.pc = "updateParticipant", !.ts = now,
                          !.body = [type |-> "messages",
                                    ids |-> {m \in MsgIds :
                                        /\ messages[m].conversationId = t.conversationId
                                        /\ messages[m].deletedAt = NoTime}]]]
        /\ UNCHANGED <<now, history, chat, presence, live>>

GetMessagesUpdateParticipant ==
    \E s \in Slots :
        /\ tasks[s].op = "getMessages" /\ tasks[s].pc = "updateParticipant"
        /\ participants' = SetLastReadAt(tasks[s].conversationId, tasks[s].userId, tasks[s].ts)
        /\ tasks' = [tasks EXCEPT ![s] = Reply(@, "ok", NoId)]
        /\ UNCHANGED <<now, history, conversations, messages, groups, presence, live>>

\* ------------------------------------------------------------- deleteMessage
\* every id a request may name: 0, a message id, an id no message has yet
MessageIdInputs == 0..(MaxMsgs + 1)

\* faulty variant: the sender check is missing
DeleteStartAnyUser(cap) ==
    \E s \in Slots, userId \in Users, messageId \in MessageIdInputs :
        /\ FreeSlot(s, cap)
        /\ LET t == [Idle EXCEPT !.op = "deleteMessage", !.userId = userId,
                                 !.arg = messageId, !.pre = Snapshot(cap)]
           IN tasks' = [tasks EXCEPT ![s] =
                IF messageId \notin MsgIds THEN Reply(t, "NotFound", NoId)
                ELSE [t EXCEPT !.pc = "update",
                               !.conversationId = messages[messageId].conversationId,
                               !.parts = ParticipantIds(messages[messageId].conversationId)]]
        /\ UNCHANGED <<now, history, chat, presence, live>>

\* message.findUnique with the conversation's participants, the sender check
DeleteStart(cap) ==
    \E s \in Slots, userId \in Users, messageId \in MessageIdInputs :
        /\ FreeSlot(s, cap)
        /\ LET t == [Idle EXCEPT !.op = "deleteMessage", !.userId = userId,
                                 !.arg = messageId, !.pre = Snapshot(cap)]
           IN tasks' = [tasks EXCEPT ![s] =
                IF messageId \notin MsgIds THEN Reply(t, "NotFound", NoId)
                ELSE IF messages[messageId].senderId # userId THEN Reply(t, "Forbidden", NoId)
                ELSE [t EXCEPT !.pc = "update",
                               !.conversationId = messages[messageId].conversationId,
                               !.parts = ParticipantIds(messages[messageId].conversationId)]]
        /\ UNCHANGED <<now, history, chat, presence, live>>

\* faulty variant: the delete also clears the sender of the message
DeleteUpdateClearsSender ==
    \E s \in Slots :
        /\ tasks[s].op = "deleteMessage" /\ tasks[s].pc = "update"
        /\ LET t == tasks[s]
           IN /\ messages' = [messages EXCEPT ![t.arg].deletedAt = now,
                                              ![t.arg].content = NullContent,
                                              ![t.arg].senderId = NoId]
              /\ tasks' = [tasks EXCEPT ![s] =
                    [Reply(t, "ok", NoId) EXCEPT
                        !.event = [type |-> "message_deleted", messageId |-> t.arg,
                                   conversationId |-> t.conversationId, deletedAt |-> now],
                        !.out = broadcastToUsers(t.parts \ {t.userId})]]
        /\ UNCHANGED <<now, history, conversations, participants, groups, presence, live>>

\* message.update({deletedAt: new Date(), content: null}), then message_deleted
DeleteUpdate ==
    \E s \in Slots :
        /\ tasks[s].op = "deleteMessage" /\ tasks[s].pc = "update"
        /\ LET t == tasks[s]
           IN /\ messages' = [messages EXCEPT ![t.arg].deletedAt = now,
                                              ![t.arg].content = NullContent]
              /\ tasks' = [tasks EXCEPT ![s] =
                    [Reply(t, "ok", NoId) EXCEPT
                        !.event = [type |-> "message_deleted", messageId |-> t.arg,
                                   conversationId |-> t.conversationId, deletedAt |-> now],
                        !.out = broadcastToUsers(t.parts \ {t.userId})]]
        /\ UNCHANGED <<now, history, conversations, participants, groups, presence, live>>

\* ------------------------------------------------------------- initiateCall
CallTypes == {"audio", "video"}

\* the call message as the handler formats it for the reply and for the event
FormattedCallMessage(id, m) ==
    [type |-> "message", id |-> id, conversationId |-> m.conversationId,
     senderId |-> m.senderId, content |-> m.content, messageType |-> m.type,
     status |-> m.status, replyToId |-> NoId, createdAt |-> m.createdAt,
     callStatus |-> m.callStatus, callDuration |-> m.callDuration]

\* faulty variant: the receiver is never resolved
CallStartNoReceiver(cap, types) ==
    \E s \in Slots, userId \in Users, conversationId \in 1..(MaxConvs + 1), type \in types :
        /\ FreeSlot(s, cap)
        /\ Len(messages) + Cardinality(Senders) < MaxMsgs
        /\ LET t == [Idle EXCEPT !.op = "initiateCall", !.userId = userId,
                                 !.conversationId = conversationId,
                                 !.pre = Snapshot(cap)]
           IN tasks' = [tasks EXCEPT ![s] =
                IF conversationId \notin ConvIds THEN Reply(t, "NotFound", NoId)
                ELSE IF userId \notin ParticipantIds(conversationId)
                     THEN Reply(t, "Forbidden", NoId)
                ELSE [t EXCEPT !.parts = ParticipantIds(conversationId),
                               !.body = [type |-> "draft", callType |-> type,
                                         receiverId |-> NoId],
                               !.pc = "create"]]
        /\ UNCHANGED <<now, history, chat, presence, live>>

\* conversation.findUnique, the participant check, the receiver of a direct call
CallStart(cap, types) ==
    \E s \in Slots, userId \in Users, conversationId \in 1..(MaxConvs + 1), type \in types :
        /\ FreeSlot(s, cap)
        /\ Len(messages) + Cardinality(Senders) < MaxMsgs
        /\ LET t == [Idle EXCEPT !.op = "initiateCall", !.userId = userId,
                                 !.conversationId = conversationId,
                                 !.pre = Snapshot(cap)]
           IN IF conversationId \notin ConvIds
              THEN tasks' = [tasks EXCEPT ![s] = Reply(t, "NotFound", NoId)]
              ELSE IF userId \notin ParticipantIds(conversationId)
              THEN tasks' = [tasks EXCEPT ![s] = Reply(t, "Forbidden", NoId)]
              ELSE LET others == ParticipantIds(conversationId) \ {userId}
                       receivers == IF conversations[conversationId].type = "direct"
                                       /\ others # {}
                                    THEN others ELSE {NoId}
                   IN \E receiverId \in receivers :
                        tasks' = [tasks EXCEPT ![s] =
                            [t EXCEPT !.parts = ParticipantIds(conversationId),
                                      !.body = [type |-> "draft", callType |-> type,
                                                receiverId |-> receiverId],
                                      !.pc = "create"]]
        /\ UNCHANGED <<now, history, chat, presence, live>>

\* message.create of the call message
CallCreate ==
    \E s \in Slots :
        /\ tasks[s].op = "initiateCall" /\ tasks[s].pc = "create"
        /\ LET t == tasks[s]
               id == Len(messages) + 1
               m == [conversationId |-> t.conversationId, senderId |-> t.userId,
                     content |-> IF t.body.callType = "audio" THEN "audio call"
                                 ELSE "video call",
                     type |-> IF t.body.callType = "audio" THEN "call_audio"
                              ELSE "call_video",
                     replyToId |-> NoId,
                     status |-> "sent", createdAt |-> now, deletedAt |-> NoTime,
                     receiverId |-> t.body.receiverId, callStatus |-> "missed",
                     callStartedAt |-> now, callEndedAt |-> NoTime,
                     callDuration |-> Absent]
           IN /\ messages' = Append(messages, m)
              /\ tasks' = [tasks EXCEPT ![s] =
                    [t EXCEPT !.pc = "updateConversation", !.result = id,
                              !.body = FormattedCallMessage(id, m)]]
        /\ UNCHANGED <<now, history, conversations, participants, groups, presence, live>>

\* conversation.update({lastMessageAt}), then incoming_call to the others
CallUpdateConversation ==
    \E s \in Slots :
        /\ tasks[s].op = "initiateCall" /\ tasks[s].pc = "updateConversation"
        /\ LET t == tasks[s]
           IN /\ conversations' = [conversations EXCEPT
                    ![t.conversationId].lastMessageAt = t.body.createdAt]
              /\ tasks' = [tasks EXCEPT ![s] =
                    [Reply(t, "ok", t.result) EXCEPT
                        !.event = [type |-> "incoming_call", data |-> t.body,
                                   callType |-> IF t.body.messageType = "call_audio"
                                                THEN "audio" ELSE "video"],
                        !.out = broadcastToUsers(t.parts \ {t.userId})]]
        /\ UNCHANGED <<now, history, participants, messages, groups, presence, live>>

\* conversation.update of initiateCall rejects after message.create succeeded
CallUpdateConversationFails ==
    \E s \in Slots :
        /\ tasks[s].op = "initiateCall" /\ tasks[s].pc = "updateConversation"
        /\ tasks' = [tasks EXCEPT ![s] = Reply(tasks[s], "Internal", NoId)]
        /\ UNCHANGED <<now, history, chat, presence, live>>

\* ------------------------------------------------------------- updateCallStatus
CallStatuses == {"answered", "rejected", "completed", "missed"}

\* the durations a request may carry: none, 0, a positive number of seconds
Durations == {Absent} \cup (0..1)

IsCall(m) == m.type \in {"call_audio", "call_video"}

\* faulty variant: any user may change the status of a call
UpdateCallStartAnyUser(cap, statuses, durations) ==
    \E s \in Slots, userId \in Users, messageId \in MessageIdInputs,
       status \in statuses, duration \in durations :
        /\ FreeSlot(s, cap)
        /\ LET t == [Idle EXCEPT !.op = "updateCallStatus", !.userId = userId,
                                 !.arg = messageId, !.pre = Snapshot(cap)]
           IN tasks' = [tasks EXCEPT ![s] =
                IF messageId \notin MsgIds \/ ~IsCall(messages[messageId])
                THEN Reply(t, "NotFound", NoId)
                ELSE LET m == messages[messageId]
                         ends == status = "completed" /\ Truthy(duration)
                     IN [t EXCEPT !.pc = "update",
                                  !.conversationId = m.conversationId,
                                  !.result = IF m.senderId = userId THEN m.receiverId
                                             ELSE m.senderId,
                                  !.ts = IF ends THEN now ELSE NoTime,
                                  !.body = [type |-> "draft", status |-> status,
                                            duration |-> duration]]]
        /\ UNCHANGED <<now, history, chat, presence, live>>

\* message.findUnique, the call-type check, the party check, updateData
UpdateCallStart(cap, statuses, durations) ==
    \E s \in Slots, userId \in Users, messageId \in MessageIdInputs,
       status \in statuses, duration \in durations :
        /\ FreeSlot(s, cap)
        /\ LET t == [Idle EXCEPT !.op = "updateCallStatus", !.userId = userId,
                                 !.arg = messageId, !.pre = Snapshot(cap)]
           IN tasks' = [tasks EXCEPT ![s] =
                IF messageId \notin MsgIds \/ ~IsCall(messages[messageId])
                THEN Reply(t, "NotFound", NoId)
                ELSE IF /\ messages[messageId].senderId # userId
                        /\ messages[messageId].receiverId # userId
                     THEN Reply(t, "Forbidden", NoId)
                ELSE LET m == messages[messageId]
                         ends == status = "completed" /\ Truthy(duration)
                     IN [t EXCEPT !.pc = "update",
                                  !.conversationId = m.conversationId,
                                  !.result = IF m.senderId = userId THEN m.receiverId
                                             ELSE m.senderId,
                                  !.ts = IF ends THEN now ELSE NoTime,
                                  !.body = [type |-> "draft", status |-> status,
                                            duration |-> duration]]]
        /\ UNCHANGED <<now, history, chat, presence, live>>

\* message.update(updateData), then call_status_changed to the other party
UpdateCallWrite ==
    \E s \in Slots :
        /\ tasks[s].op = "updateCallStatus" /\ tasks[s].pc = "update"
        /\ LET t == tasks[s]
               ends == t.ts # NoTime
           IN /\ messages' = [messages EXCEPT
                    ![t.arg].callStatus = t.body.status,
                    ![t.arg].callDuration = IF ends THEN t.body.duration ELSE @,
                    ![t.arg].callEndedAt = IF ends THEN t.ts ELSE @]
              /\ tasks' = [tasks EXCEPT ![s] =
                    IF Truthy(t.result)
                    THEN [Reply(t, "ok", t.result) EXCEPT
                            !.event = [type |-> "call_status_changed", messageId |-> t.arg,
                                       status |-> t.body.status,
                                       duration |-> IF ends THEN t.body.duration
                                                    ELSE Absent,
                                       callEndedAt |-> t.ts],
                            !.out = broadcastToUser(t.result)]
                    ELSE Reply(t, "ok", t.result)]
        /\ UNCHANGED <<now, history, conversations, participants, groups, presence, live>>

\* ------------------------------------------------------------- getConversations
\* the tables a query reads, as they are now
Cur == [conversations |-> conversations, participants |-> participants, messages |-> messages]

LastReadAt(S, c, u) ==
    LET rows == {p \in S.participants : p.conversationId = c /\ p.userId = u}
    IN IF rows = {} THEN NoTime ELSE (CHOOSE p \in rows : TRUE).lastReadAt

\* faulty variant: the user's own messages are counted too
UnreadCountAnySender(S, c, u) ==
    Cardinality({m \in 1..Len(S.messages) :
        /\ S.messages[m].conversationId = c
        /\ S.messages[m].createdAt > LastReadAt(S, c, u)})

\* message.count({conversationId, createdAt > lastReadAt, senderId != userId})
UnreadCount(S, c, u) ==
    Cardinality({m \in 1..Len(S.messages) :
        /\ S.messages[m].conversationId = c
        /\ S.messages[m].createdAt > LastReadAt(S, c, u)
        /\ S.messages[m].senderId # u})

\* messages: orderBy createdAt desc, take 1 (any of the newest when several tie)
LastMessages(S, c) ==
    LET ms == {m \in 1..Len(S.messages) : S.messages[m].conversationId = c}
    IN {m \in ms : \A o \in ms : S.messages[o].createdAt <= S.messages[m].createdAt}

ConversationsOf(S, u) ==
    {c \in 1..Len(S.conversations) : \E p \in S.participants : p.conversationId = c /\ p.userId = u}

\* what getConversations reports for each conversation of the user
getConversations(S, u) ==
    [c \in ConversationsOf(S, u) |->
        [lastMessageAt |-> S.conversations[c].lastMessageAt,
         unreadCount |-> UnreadCount(S, c, u)]]

\* messages: {orderBy createdAt desc, take 1} of the include, with no filter on
\* deletedAt: the id of a newest message of c, NoId when c has none
lastMessage(S, c) == IF LastMessages(S, c) = {} THEN {NoId} ELSE LastMessages(S, c)

GetConversations(cap) ==
    \E s \in Slots, userId \in Users :
        \E last \in [ConversationsOf(Cur, userId) -> MsgIds \cup {NoId}] :
            /\ FreeSlot(s, cap)
            /\ \A c \in ConversationsOf(Cur, userId) : last[c] \in lastMessage(Cur, c)
            /\ tasks' = [tasks EXCEPT ![s] =
                    [Reply([Idle EXCEPT !.op = "getConversations", !.userId = userId],
                           "ok", NoId) EXCEPT
                        !.body = [type |-> "conversations",
                                  list |-> getConversations(Cur, userId),
                                  lastMessage |-> last]]]
            /\ UNCHANGED <<now, history, chat, presence, live>>

\* what getConversation reports: the participant check, then the same lookups
\* as getConversations for the one conversation
GetConversation(cap) ==
    \E s \in Slots, userId \in Users, conversationId \in 1..(MaxConvs + 1) :
        /\ FreeSlot(s, cap)
        /\ LET t == [Idle EXCEPT !.op = "getConversation", !.userId = userId,
                                 !.conversationId = conversationId]
           IN tasks' = [tasks EXCEPT ![s] =
                IF ParticipantRow(conversationId, userId) = {}
                THEN Reply(t, "NotFound", NoId)
                ELSE [Reply(t, "ok", NoId) EXCEPT
                        !.body = [type |-> "conversation",
                                  lastMessageAt |-> conversations[conversationId].lastMessageAt,
                                  unreadCount |-> UnreadCount(Cur, conversationId, userId)]]]
        /\ UNCHANGED <<now, history, chat, presence, live>>

\* ------------------------------------------------------------- inbound frames
\* faulty variant: a ping refreshes the user's lastActiveAt
PingTouchesStatus(cap) ==
    \E s \in Slots, w \in Conns :
        /\ FreeSlot(s, cap)
        /\ sockets[w].readyState = "OPEN"
        /\ tasks' = [tasks EXCEPT ![s] =
                [Reply([Idle EXCEPT !.op = "ping", !.userId = sockets[w].userId, !.arg = w],
                       "ok", NoId) EXCEPT
                    !.event = [type |-> "pong"],
                    !.out = [v \in Conns |-> IF v = w THEN 1 ELSE 0]]]
        /\ userStatus' = [userStatus EXCEPT ![sockets[w].userId] =
                [status |-> "online", lastActiveAt |-> now]]
        /\ UNCHANGED <<now, history, chat, pending, live>>

\* a ping frame on an OPEN socket: one pong on that socket
Ping(cap) ==
    \E s \in Slots, w \in Conns :
        /\ FreeSlot(s, cap)
        /\ sockets[w].readyState = "OPEN"
        /\ tasks' = [tasks EXCEPT ![s] =
                [Reply([Idle EXCEPT !.op = "ping", !.userId = sockets[w].userId, !.arg = w],
                       "ok", NoId) EXCEPT
                    !.event = [type |-> "pong"],
                    !.out = [v \in Conns |-> IF v = w THEN 1 ELSE 0]]]
        /\ UNCHANGED <<now, history, chat, presence, live>>

\* faulty variant: an unparseable frame ends the connection
BadFrameCloses(cap) ==
    \E s \in Slots, w \in Conns :
        /\ FreeSlot(s, cap)
        /\ sockets[w].readyState = "OPEN"
        /\ tasks' = [tasks EXCEPT ![s] =
                [Reply([Idle EXCEPT !.op = "badFrame", !.userId = sockets[w].userId, !.arg = w],
                       "ok", NoId) EXCEPT
                    !.event = [type |-> "error"],
                    !.out = [v \in Conns |-> IF v = w THEN 1 ELSE 0]]]
        /\ sockets' = [sockets EXCEPT ![w].readyState = "CLOSED"]
        /\ connections' = [connections EXCEPT ![sockets[w].userId] = @ \ {w}]
        /\ UNCHANGED <<now, history, chat, presence>>

\* a frame on an OPEN socket that JSON.parse rejects: the catch sends one error
\* frame on that socket
BadFrame(cap) ==
    \E s \in Slots, w \in Conns :
        /\ FreeSlot(s, cap)
        /\ sockets[w].readyState = "OPEN"
        /\ tasks' = [tasks EXCEPT ![s] =
                [Reply([Idle EXCEPT !.op = "badFrame", !.userId = sockets[w].userId, !.arg = w],
                       "ok", NoId) EXCEPT
                    !.event = [type |-> "error"],
                    !.out = [v \in Conns |-> IF v = w THEN 1 ELSE 0]]]
        /\ UNCHANGED <<now, history, chat, presence, live>>

\* a typing frame on an OPEN socket: handleTypingStatus, participant lookup
TypingStart(cap) ==
    \E s \in Slots, w \in Conns, conversationId \in 1..(MaxConvs + 1) :
        /\ FreeSlot(s, cap)
        /\ sockets[w].readyState = "OPEN"
        /\ LET userId == sockets[w].userId
               t == [Idle EXCEPT !.op = "typing", !.userId = userId, !.arg = w,
                                 !.conversationId = conversationId]
           IN tasks' = [tasks EXCEPT ![s] =
                IF ParticipantRow(conversationId, userId) = {}
                THEN Reply(t, "ok", NoId)
                ELSE [t EXCEPT !.pc = "findOthers"]]
        /\ UNCHANGED <<now, history, chat, presence, live>>

\* conversationParticipant.findMany({conversationId, userId: {not: userId}})
TypingFindOthers ==
    \E s \in Slots :
        /\ tasks[s].op = "typing" /\ tasks[s].pc = "findOthers"
        /\ tasks' = [tasks EXCEPT ![s].pc = "findUser",
                                  ![s].parts = ParticipantIds(tasks[s].conversationId)
                                                    \ {tasks[s].userId}]
        /\ UNCHANGED <<now, history, chat, presence, live>>

\* faulty variant: the typing event is echoed to the typing user as well
TypingNotifyEcho ==
    \E s \in Slots :
        /\ tasks[s].op = "typing" /\ tasks[s].pc = "findUser"
        /\ LET t == tasks[s]
           IN tasks' = [tasks EXCEPT ![s] =
                IF t.parts # {} /\ t.userId \in Users
                THEN [Reply(t, "ok", NoId) EXCEPT
                        !.event = [type |-> "user_typing",
                                   conversationId |-> t.conversationId,
                                   userId |-> t.userId, timestamp |-> now],
                        !.out = broadcastToUsers(t.parts \cup {t.userId})]
                ELSE Reply(t, "ok", NoId)]
        /\ UNCHANGED <<now, history, chat, presence, live>>

\* user.findUnique, then user_typing to the other participants
TypingNotify ==
    \E s \in Slots :
        /\ tasks[s].op = "typing" /\ tasks[s].pc = "findUser"
        /\ LET t == tasks[s]
           IN tasks' = [tasks EXCEPT ![s] =
                IF t.parts # {} /\ t.userId \in Users
                THEN [Reply(t, "ok", NoId) EXCEPT
                        !.event = [type |-> "user_typing",
                                   conversationId |-> t.conversationId,
                                   userId |-> t.userId, timestamp |-> now],
                        !.out = broadcastToUsers(t.parts)]
                ELSE Reply(t, "ok", NoId)]
        /\ UNCHANGED <<now, history, chat, presence, live>>

\* ------------------------------------------------------------- live connections
addConnection(userId, ws) == [connections EXCEPT ![userId] = @ \cup {ws}]

\* faulty variant: removing a socket drops the whole entry of the user
removeConnectionDropsUser(userId, ws) == [connections EXCEPT ![userId] = {}]

removeConnection(userId, ws) == [connections EXCEPT ![userId] = @ \ {ws}]

\* a call of addConnection / removeConnection with any user and any socket; the
\* call and whether the registry held the pair are kept in slot 1 (history)
RegistryCall(op, userId, ws) ==
    [Idle EXCEPT !.op = op, !.pc = "called", !.userId = userId, !.arg = ws,
                 !.status = IF ws \in connections[userId] THEN "held" ELSE "unknown"]

AddConnectionCall ==
    \E userId \in Users, ws \in Conns :
        /\ connections' = addConnection(userId, ws)
        /\ held' = held \cup {<<userId, ws>>}
        /\ tasks' = [tasks EXCEPT ![1] = RegistryCall("addConnection", userId, ws)]
        /\ UNCHANGED <<now, firstDirect, chat, presence, sockets>>

RemoveConnectionCall ==
    \E userId \in Users, ws \in Conns :
        /\ connections' = removeConnection(userId, ws)
        /\ held' = held \ {<<userId, ws>>}
        /\ tasks' = [tasks EXCEPT ![1] = RegistryCall("removeConnection", userId, ws)]
        /\ UNCHANGED <<now, firstDirect, chat, presence, sockets>>

\* faulty variant: the error frame is sent but the socket is left open
ConnectUnauthorizedStaysOpen(cap) ==
    \E s \in Slots, w \in Conns :
        /\ FreeSlot(s, cap)
        /\ sockets[w].readyState = "NONE"
        /\ \A v \in Conns : v < w => sockets[v].readyState # "NONE"
        /\ sockets' = [sockets EXCEPT ![w] = [userId |-> NoId, readyState |-> "OPEN"]]
        /\ tasks' = [tasks EXCEPT ![s] =
                [Reply([Idle EXCEPT !.op = "connect", !.arg = w], "Unauthorized", NoId) EXCEPT
                    !.event = [type |-> "error", message |-> "Unauthorized"],
                    !.out = [v \in Conns |-> IF v = w THEN 1 ELSE 0]]]
        /\ UNCHANGED <<now, history, chat, presence, connections>>

\* wsHandler of a request without req.user.id on the next unused socket: one
\* error frame, socket.close(), return before addConnection and user.update
ConnectUnauthorized(cap) ==
    \E s \in Slots, w \in Conns :
        /\ FreeSlot(s, cap)
        /\ sockets[w].readyState = "NONE"
        /\ \A v \in Conns : v < w => sockets[v].readyState # "NONE"
        /\ sockets' = [sockets EXCEPT ![w] = [userId |-> NoId, readyState |-> "CLOSING"]]
        /\ tasks' = [tasks EXCEPT ![s] =
                [Reply([Idle EXCEPT !.op = "connect", !.arg = w], "Unauthorized", NoId) EXCEPT
                    !.event = [type |-> "error", message |-> "Unauthorized"],
                    !.out = [v \in Conns |-> IF v = w THEN 1 ELSE 0]]]
        /\ UNCHANGED <<now, history, chat, presence, connections>>

\* the closing handshake of a rejected socket ends; it has no close listener
UnauthorizedClosed ==
    \E w \in Conns :
        /\ sockets[w].readyState = "CLOSING" /\ sockets[w].userId = NoId
        /\ sockets' = [sockets EXCEPT ![w].readyState = "CLOSED"]
        /\ UNCHANGED <<now, history, chat, presence, connections, tasks>>

\* wsHandler of an authenticated request on the next unused socket
Connect ==
    \E userId \in Users, w \in Conns :
        /\ sockets[w].readyState = "NONE"
        /\ \A v \in Conns : v < w => sockets[v].readyState # "NONE"
        /\ sockets' = [sockets EXCEPT ![w] = [userId |-> userId, readyState |-> "OPEN"]]
        /\ connections' = addConnection(userId, w)
        /\ held' = held \cup {<<userId, w>>}
        /\ pending' = pending \cup {[userId |-> userId, status |-> "online", at |-> now]}
        /\ UNCHANGED <<now, firstDirect, chat, userStatus, tasks>>

\* the closing handshake starts: the socket is still registered
SocketClosing ==
    \E w \in Conns :
        /\ sockets[w].readyState = "OPEN"
        /\ sockets' = [sockets EXCEPT ![w].readyState = "CLOSING"]
        /\ UNCHANGED <<now, history, chat, presence, connections, tasks>>

\* faulty variant: every close issues the offline write
CloseListenerAlwaysOffline ==
    \E w \in Conns :
        /\ sockets[w].readyState \in {"OPEN", "CLOSING"}
        /\ sockets[w].userId \in Users
        /\ LET userId == sockets[w].userId
           IN /\ connections' = removeConnection(userId, w)
              /\ held' = held \ {<<userId, w>>}
              /\ pending' = pending \cup {[userId |-> userId, status |-> "offline", at |-> now]}
        /\ sockets' = [sockets EXCEPT ![w].readyState = "CLOSED"]
        /\ UNCHANGED <<now, firstDirect, chat, userStatus, tasks>>

\* the "close" listener of wsHandler, registered for authenticated requests only
CloseListener ==
    \E w \in Conns :
        /\ sockets[w].readyState \in {"OPEN", "CLOSING"}
        /\ sockets[w].userId \in Users
        /\ LET userId == sockets[w].userId
               left == removeConnection(userId, w)
           IN /\ connections' = left
              /\ held' = held \ {<<userId, w>>}
              /\ pending' = IF left[userId] = {}
                            THEN pending \cup {[userId |-> userId, status |-> "offline", at |-> now]}
                            ELSE pending
        /\ sockets' = [sockets EXCEPT ![w].readyState = "CLOSED"]
        /\ UNCHANGED <<now, firstDirect, chat, userStatus, tasks>>

\* a user.update issued by wsHandler reaches the database
PresenceWrite ==
    \E wr \in pending :
        /\ userStatus' = [userStatus EXCEPT ![wr.userId] =
                [status |-> wr.status, lastActiveAt |-> wr.at]]
        /\ pending' = pending \ {wr}
        /\ UNCHANGED <<now, history, chat, live, tasks>>

\* faulty variant: a failed write closes the sockets of the user
PresenceWriteFailsCloses ==
    \E wr \in pending :
        /\ pending' = pending \ {wr}
        /\ connections' = [connections EXCEPT ![wr.userId] = {}]
        /\ sockets' = [w \in Conns |->
                IF w \in connections[wr.userId]
                THEN [sockets[w] EXCEPT !.readyState = "CLOSED"]
                ELSE sockets[w]]
        /\ held' = {pr \in held : pr[1] # wr.userId}
        /\ UNCHANGED <<now, firstDirect, chat, userStatus, tasks>>

\* ... or fails: the .catch logs it
PresenceWriteFails ==
    \E wr \in pending :
        /\ pending' = pending \ {wr}
        /\ UNCHANGED <<now, history, chat, userStatus, live, tasks>>

\* ------------------------------------------------------------- reply
\* the response has been sent; the task is over
Return ==
    \E s \in Slots :
        /\ tasks[s].pc = "done"
        /\ tasks' = [tasks EXCEPT ![s] = Idle]
        /\ UNCHANGED <<now, history, chat, presence, live>>

\* ------------------------------------------------------------- specifications
InitEmpty ==
    /\ now = 1
    /\ conversations = <<>>
    /\ participants = {}
    /\ messages = <<>>
    /\ groups = <<>>
    /\ userStatus = [u \in Users |-> [status |-> "offline", lastActiveAt |-> NoTime]]
    /\ pending = {}
    /\ connections = [u \in Users |-> {}]
    /\ sockets = [w \in Conns |-> [userId |-> NoId, readyState |-> "NONE"]]
    /\ tasks = [s \in Slots |-> Idle]
    /\ firstDirect = [pr \in Pairs |-> NoReply]
    /\ held = {}

NextConv ==
    \/ Tick
    \/ CreateDirectStart(MaxTasks)
    \/ CreateDirectFind
    \/ CreateDirectCreate
    \/ CreateGroupStart(MaxTasks)
    \/ CreateGroupConversation
    \/ Return

SpecConv == InitEmpty /\ [][NextConv]_vars

NextConvSeq ==
    \/ Tick
    \/ CreateDirectStart(1)
    \/ CreateDirectFind
    \/ CreateDirectCreate
    \/ CreateGroupStart(1)
    \/ CreateGroupConversation
    \/ Return

SpecConvSeq == InitEmpty /\ [][NextConvSeq]_vars

\* conversation 1 is the direct conversation of users 1 and 2, conversation 2 a
\* group of users 1, 2 and 3 created by user 1: the state after createDirect(1, 2)
\* and createGroup(1, [2, 3]) at time 1, before any message
InitChat ==
    /\ now = 1
    /\ conversations = <<NewConversation("direct", NoId), NewConversation("group", 1)>>
    /\ participants = NewParticipants(1, {1, 2}) \cup NewParticipants(2, {1, 2, 3})
    /\ messages = <<>>
    /\ groups = <<[creatorId |-> 1,
                   members |-> {[userId |-> 1, role |-> "owner"], [userId |-> 2, role |-> "member"],
                                [userId |-> 3, role |-> "member"]}]>>
    /\ userStatus = [u \in Users |-> [status |-> "offline", lastActiveAt |-> NoTime]]
    /\ pending = {}
    /\ connections = [u \in Users |-> {}]
    /\ sockets = [w \in Conns |-> [userId |-> NoId, readyState |-> "NONE"]]
    /\ tasks = [s \in Slots |-> Idle]
    /\ firstDirect = [pr \in Pairs |-> NoReply]
    /\ held = {}

\* InitChat after users 2 and 3 each opened a live connection at time 1 and the
\* two online writes were applied
InitChatLive ==
    /\ now = 1
    /\ conversations = <<NewConversation("direct", NoId), NewConversation("group", 1)>>
    /\ participants = NewParticipants(1, {1, 2}) \cup NewParticipants(2, {1, 2, 3})
    /\ messages = <<>>
    /\ groups = <<[creatorId |-> 1,
                   members |-> {[userId |-> 1, role |-> "owner"], [userId |-> 2, role |-> "member"],
                                [userId |-> 3, role |-> "member"]}]>>
    /\ userStatus = [u \in Users |->
            IF u \in {2, 3} THEN [status |-> "online", lastActiveAt |-> 1]
            ELSE [status |-> "offline", lastActiveAt |-> NoTime]]
    /\ pending = {}
    /\ connections = [u \in Users |-> IF u \in {2, 3} THEN {u - 1} ELSE {}]
    /\ sockets = [w \in Conns |->
            IF w \in {1, 2} THEN [userId |-> w + 1, readyState |-> "OPEN"]
            ELSE [userId |-> NoId, readyState |-> "NONE"]]
    /\ tasks = [s \in Slots |-> Idle]
    /\ firstDirect = [pr \in Pairs |-> NoReply]
    /\ held = {<<2, 1>>, <<3, 2>>}

\* sending and reading history, one request at a time
NextSendSeq ==
    \/ Tick
    \/ SendStart(1, ReplyIds)
    \/ SendCheckReply
    \/ SendCreate
    \/ SendUpdateConversation
    \/ SendUpdateParticipant
    \/ GetMessagesStart(1)
    \/ GetMessagesFindMany
    \/ GetMessagesUpdateParticipant
    \/ GetConversations(1)
    \/ Return

SpecSendSeq == InitChatLive /\ [][NextSendSeq]_vars

\* sending and marking read, one request at a time
NextReadSeq ==
    \/ Tick
    \/ SendStart(1, {Absent, 1})
    \/ SendCheckReply
    \/ SendCreate
    \/ SendUpdateConversation
    \/ SendUpdateParticipant
    \/ ReadStart(1)
    \/ ReadUpdateMany
    \/ ReadFindLast
    \/ ReadUpdateParticipant
    \/ ReadNotify
    \/ Return

SpecReadSeq == InitChatLive /\ [][NextReadSeq]_vars

\* overlapping sendMessage requests
NextSend ==
    \/ Tick
    \/ SendStart(MaxTasks, {Absent, 1})
    \/ SendCheckReply
    \/ SendCreate
    \/ SendUpdateConversation
    \/ SendUpdateParticipant
    \/ Return

SpecSend == InitChatLive /\ [][NextSend]_vars

\* InitChat with each socket either unused or opened by some user, the online
\* writes applied
InitDispatch ==
    /\ now = 1
    /\ conversations = <<NewConversation("direct", NoId), NewConversation("group", 1)>>
    /\ participants = NewParticipants(1, {1, 2}) \cup NewParticipants(2, {1, 2, 3})
    /\ messages = <<>>
    /\ groups = <<[creatorId |-> 1,
                   members |-> {[userId |-> 1, role |-> "owner"], [userId |-> 2, role |-> "member"],
                                [userId |-> 3, role |-> "member"]}]>>
    /\ \E owner \in [Conns -> Users \cup {NoId}] :
        /\ sockets = [w \in Conns |->
                [userId |-> owner[w],
                 readyState |-> IF owner[w] = NoId THEN "NONE" ELSE "OPEN"]]
        /\ connections = [u \in Users |-> {w \in Conns : owner[w] = u}]
        /\ userStatus = [u \in Users |->
                IF \E w \in Conns : owner[w] = u
                THEN [status |-> "online", lastActiveAt |-> 1]
                ELSE [status |-> "offline", lastActiveAt |-> NoTime]]
        /\ held = {<<owner[w], w>> : w \in {v \in Conns : owner[v] # NoId}}
    /\ pending = {}
    /\ tasks = [s \in Slots |-> Idle]
    /\ firstDirect = [pr \in Pairs |-> NoReply]

\* sending and marking read, one request at a time, while sockets start closing
NextDispatch ==
    \/ SocketClosing
    \/ SendStart(1, {Absent, 1})
    \/ SendCheckReply
    \/ SendCreate
    \/ SendUpdateConversation
    \/ SendUpdateParticipant
    \/ ReadStart(1)
    \/ ReadUpdateMany
    \/ ReadFindLast
    \/ ReadUpdateParticipant
    \/ ReadNotify
    \/ Return

SpecDispatch == InitDispatch /\ [][NextDispatch]_vars

\* sending and deleting, one request at a time
NextDeleteSeq ==
    \/ Tick
    \/ SendStart(1, {Absent, 1})
    \/ SendCheckReply
    \/ SendCreate
    \/ SendUpdateConversation
    \/ SendUpdateParticipant
    \/ DeleteStart(1)
    \/ DeleteUpdate
    \/ Return

SpecDeleteSeq == InitChatLive /\ [][NextDeleteSeq]_vars

\* one direct conversation of users 1 and 2, each with one OPEN socket: the state
\* after createDirect(1, 2) at time 1 and two connects, the online writes applied
InitDirect ==
    /\ now = 1
    /\ conversations = <<NewConversation("direct", NoId)>>
    /\ participants = NewParticipants(1, {1, 2})
    /\ messages = <<>>
    /\ groups = <<>>
    /\ userStatus = [u \in Users |->
            IF u \in {1, 2} THEN [status |-> "online", lastActiveAt |-> 1]
            ELSE [status |-> "offline", lastActiveAt |-> NoTime]]
    /\ pending = {}
    /\ connections = [u \in Users |-> IF u \in {1, 2} THEN {u} ELSE {}]
    /\ sockets = [w \in Conns |->
            IF w \in {1, 2} THEN [userId |-> w, readyState |-> "OPEN"]
            ELSE [userId |-> NoId, readyState |-> "NONE"]]
    /\ tasks = [s \in Slots |-> Idle]
    /\ firstDirect = [pr \in Pairs |-> IF pr = {1, 2} THEN [id |-> 1, userId |-> 1]
                                      ELSE NoReply]
    /\ held = {<<1, 1>>, <<2, 2>>}

\* every operation on messages, one request at a time
NextMessages ==
    \/ SendStart(1, {Absent, 1})
    \/ SendCheckReply
    \/ SendCreate
    \/ SendUpdateConversation
    \/ SendUpdateParticipant
    \/ ReadStart(1)
    \/ ReadUpdateMany
    \/ ReadFindLast
    \/ ReadUpdateParticipant
    \/ ReadNotify
    \/ DeleteStart(1)
    \/ DeleteUpdate
    \/ CallStart(1, {"audio"})
    \/ CallCreate
    \/ CallUpdateConversation
    \/ UpdateCallStart(1, {"answered", "completed"}, {1})
    \/ UpdateCallWrite
    \/ GetMessagesStart(1)
    \/ GetMessagesFindMany
    \/ GetMessagesUpdateParticipant
    \/ GetConversations(1)
    \/ GetConversation(1)
    \/ Return

SpecMessages == InitDirect /\ [][NextMessages]_vars

\* sockets opening and closing, presence writes completing, while messages are
\* sent one request at a time
NextLive ==
    \/ Connect
    \/ SocketClosing
    \/ CloseListener
    \/ PresenceWrite
    \/ PresenceWriteFails
    \/ SendStart(1, {Absent, 1})
    \/ SendCheckReply
    \/ SendCreate
    \/ SendUpdateConversation
    \/ SendUpdateParticipant
    \/ Return

SpecLive == InitChat /\ [][NextLive]_vars

\* sending, one request at a time, when a send to a socket may throw
NextSendThrows ==
    \/ SendStart(1, {Absent, 1})
    \/ SendCheckReply
    \/ SendCreate
    \/ SendUpdateConversation
    \/ SendUpdateParticipant
    \/ SendUpdateParticipantThrows
    \/ Return

SpecSendThrows == InitDispatch /\ [][NextSendThrows]_vars

\* the registry under any sequence of calls
NextRegistry ==
    \/ AddConnectionCall
    \/ RemoveConnectionCall

SpecRegistry == InitEmpty /\ [][NextRegistry]_vars

\* the direct conversation of users 1 and 2 after user 2 connected on socket 1 (the
\* online write still pending) and sent one message; socket 2 is unused
InitConnecting ==
    /\ now = 1
    /\ conversations = <<[NewConversation("direct", NoId) EXCEPT !.lastMessageAt = 1]>>
    /\ participants = NewParticipants(1, {1, 2})
    /\ messages = <<[conversationId |-> 1, senderId |-> 2, content |-> "hi",
                     type |-> "text", replyToId |-> NoId, status |-> "sent",
                     createdAt |-> 1, deletedAt |-> NoTime, receiverId |-> NoId,
                     callStatus |-> NoCall, callStartedAt |-> NoTime,
                     callEndedAt |-> NoTime, callDuration |-> Absent]>>
    /\ groups = <<>>
    /\ userStatus = [u \in Users |-> [status |-> "offline", lastActiveAt |-> NoTime]]
    /\ pending = {[userId |-> 2, status |-> "online", at |-> 1]}
    /\ connections = [u \in Users |-> IF u = 2 THEN {1} ELSE {}]
    /\ sockets = [w \in Conns |->
            IF w = 1 THEN [userId |-> 2, readyState |-> "OPEN"]
            ELSE [userId |-> NoId, readyState |-> "NONE"]]
    /\ tasks = [s \in Slots |-> Idle]
    /\ firstDirect = [pr \in Pairs |-> IF pr = {1, 2} THEN [id |-> 1, userId |-> 1]
                                      ELSE NoReply]
    /\ held = {<<2, 1>>}

\* the traffic of SpecAll: the requests are user 1's, the sockets are user 2's
OneRequester ==
    /\ \A s \in Slots : tasks[s].op \notin {"typing", "ping"} => tasks[s].userId \in {NoId, 1}
    /\ \A w \in Conns : sockets[w].userId \in {NoId, 2}

\* every operation, one request at a time, while sockets open and close and
\* presence writes complete
NextAll ==
    \/ Connect /\ OneRequester'
    \/ CloseListener
    \/ PresenceWrite
    \/ PresenceWriteFails
    \/ CreateDirectStart(1) /\ OneRequester'
    \/ CreateDirectFind
    \/ CreateDirectCreate
    \/ CreateGroupStart(1) /\ OneRequester'
    \/ CreateGroupConversation
    \/ SendStart(1, {Absent, 1}) /\ OneRequester'
    \/ SendCheckReply
    \/ SendCreate
    \/ SendUpdateConversation
    \/ SendUpdateParticipant
    \/ ReadStart(1) /\ OneRequester'
    \/ ReadUpdateMany
    \/ ReadFindLast
    \/ ReadUpdateParticipant
    \/ ReadNotify
    \/ DeleteStart(1) /\ OneRequester'
    \/ DeleteUpdate
    \/ CallStart(1, {"audio"}) /\ OneRequester'
    \/ CallCreate
    \/ CallUpdateConversation
    \/ UpdateCallStart(1, {"answered"}, {Absent}) /\ OneRequester'
    \/ UpdateCallWrite
    \/ GetMessagesStart(1) /\ OneRequester'
    \/ GetMessagesFindMany
    \/ GetMessagesUpdateParticipant
    \/ TypingStart(1)
    \/ TypingFindOthers
    \/ TypingNotify
    \/ Ping(1)
    \/ Return

SpecAll == InitConnecting /\ [][NextAll]_vars

\* InitChat after user 2 sent one message in the direct conversation and users 2
\* and 3 opened the two sockets between them, the online writes applied
InitCall ==
    /\ now = 1
    /\ conversations = <<[NewConversation("direct", NoId) EXCEPT !.lastMessageAt = 1],
                         NewConversation("group", 1)>>
    /\ participants = NewParticipants(1, {1, 2}) \cup NewParticipants(2, {1, 2, 3})
    /\ messages = <<[conversationId |-> 1, senderId |-> 2, content |-> "hi",
                     type |-> "text", replyToId |-> NoId, status |-> "sent",
                     createdAt |-> 1, deletedAt |-> NoTime, receiverId |-> NoId,
                     callStatus |-> NoCall, callStartedAt |-> NoTime,
                     callEndedAt |-> NoTime, callDuration |-> Absent]>>
    /\ groups = <<[creatorId |-> 1,
                   members |-> {[userId |-> 1, role |-> "owner"], [userId |-> 2, role |-> "member"],
                                [userId |-> 3, role |-> "member"]}]>>
    /\ \E owner \in [Conns -> {2, 3}] :
        /\ sockets = [w \in Conns |-> [userId |-> owner[w], readyState |-> "OPEN"]]
        /\ connections = [u \in Users |-> {w \in Conns : owner[w] = u}]
        /\ userStatus = [u \in Users |->
                IF \E w \in Conns : owner[w] = u
                THEN [status |-> "online", lastActiveAt |-> 1]
                ELSE [status |-> "offline", lastActiveAt |-> NoTime]]
        /\ held = {<<owner[w], w>> : w \in Conns}
    /\ pending = {}
    /\ tasks = [s \in Slots |-> Idle]
    /\ firstDirect = [pr \in Pairs |-> NoReply]

\* calls, one request at a time, while sockets start closing
NextCall ==
    \/ SocketClosing
    \/ CallStart(1, CallTypes)
    \/ CallCreate
    \/ CallUpdateConversation
    \/ UpdateCallStart(1, CallStatuses, Durations)
    \/ UpdateCallWrite
    \/ Return

SpecCall == InitCall /\ [][NextCall]_vars

\* no table rows yet; each socket opened by some user, the online writes applied
InitGroup ==
    /\ now = 1
    /\ conversations = <<>>
    /\ participants = {}
    /\ messages = <<>>
    /\ groups = <<>>
    /\ \E owner \in [Conns -> Users] :
        /\ sockets = [w \in Conns |-> [userId |-> owner[w], readyState |-> "OPEN"]]
        /\ connections = [u \in Users |-> {w \in Conns : owner[w] = u}]
        /\ userStatus = [u \in Users |->
                IF \E w \in Conns : owner[w] = u
                THEN [status |-> "online", lastActiveAt |-> 1]
                ELSE [status |-> "offline", lastActiveAt |-> NoTime]]
        /\ held = {<<owner[w], w>> : w \in Conns}
    /\ pending = {}
    /\ tasks = [s \in Slots |-> Idle]
    /\ firstDirect = [pr \in Pairs |-> NoReply]

\* createGroup, one request at a time, its two writes succeeding or failing,
\* while sockets start closing
NextGroup ==
    \/ SocketClosing
    \/ CreateGroupStart(1)
    \/ CreateGroupFails(1)
    \/ CreateGroupConversation
    \/ CreateGroupConversationFails
    \/ Return

SpecGroup == InitGroup /\ [][NextGroup]_vars

\* sending and calling, one request at a time, the writes after message.create
\* succeeding or failing
NextSendFaults ==
    \/ Tick
    \/ SendStart(1, {Absent, 1})
    \/ SendCheckReply
    \/ SendCreate
    \/ SendUpdateConversation
    \/ SendUpdateConversationFails
    \/ SendUpdateParticipant
    \/ SendUpdateParticipantFails
    \/ CallStart(1, {"audio"})
    \/ CallCreate
    \/ CallUpdateConversation
    \/ CallUpdateConversationFails
    \/ Return

SpecSendFaults == InitChat /\ [][NextSendFaults]_vars

\* sending, marking read and querying the unread counts, one request at a time,
\* while time passes
NextUnread ==
    \/ Tick
    \/ SendStart(1, {Absent, 1})
    \/ SendCheckReply
    \/ SendCreate
    \/ SendUpdateConversation
    \/ SendUpdateParticipant
    \/ ReadStart(1)
    \/ ReadUpdateMany
    \/ ReadFindLast
    \/ ReadUpdateParticipant
    \/ ReadNotify
    \/ GetConversations(1)
    \/ GetConversation(1)
    \/ Return

SpecUnread == InitDirect /\ [][NextUnread]_vars

\* frames arriving on the sockets of users 1 and 2 and messages being sent, one
\* at a time, while sockets start closing
NextFrames ==
    \/ SocketClosing
    \/ Ping(1)
    \/ BadFrame(1)
    \/ TypingStart(1)
    \/ TypingFindOthers
    \/ TypingNotify
    \/ SendStart(1, {Absent, 1})
    \/ SendCheckReply
    \/ SendCreate
    \/ SendUpdateConversation
    \/ SendUpdateParticipant
    \/ Return

SpecFrames == InitDirect /\ [][NextFrames]_vars

\* connects and disconnects, every presence write reaching the database, in any
\* order
NextPresence ==
    \/ Tick
    \/ Connect
    \/ SocketClosing
    \/ CloseListener
    \/ PresenceWrite

SpecPresence == InitChat /\ [][NextPresence]_vars

\* InitChat after user 2 sent one message in the direct conversation, each socket
\* opened by some user, the online writes applied
InitContent ==
    /\ now = 1
    /\ conversations = <<[NewConversation("direct", NoId) EXCEPT !.lastMessageAt = 1],
                         NewConversation("group", 1)>>
    /\ participants = NewParticipants(1, {1, 2}) \cup NewParticipants(2, {1, 2, 3})
    /\ messages = <<[conversationId |-> 1, senderId |-> 2, content |-> "hi",
                     type |-> "text", replyToId |-> NoId, status |-> "sent",
                     createdAt |-> 1, deletedAt |-> NoTime, receiverId |-> NoId,
                     callStatus |-> NoCall, callStartedAt |-> NoTime,
                     callEndedAt |-> NoTime, callDuration |-> Absent]>>
    /\ groups = <<[creatorId |-> 1,
                   members |-> {[userId |-> 1, role |-> "owner"], [userId |-> 2, role |-> "member"],
                                [userId |-> 3, role |-> "member"]}]>>
    /\ \E owner \in [Conns -> Users] :
        /\ sockets = [w \in Conns |-> [userId |-> owner[w], readyState |-> "OPEN"]]
        /\ connections = [u \in Users |-> {w \in Conns : owner[w] = u}]
        /\ userStatus = [u \in Users |->
                IF \E w \in Conns : owner[w] = u
                THEN [status |-> "online", lastActiveAt |-> 1]
                ELSE [status |-> "offline", lastActiveAt |-> NoTime]]
        /\ held = {<<owner[w], w>> : w \in Conns}
    /\ pending = {}
    /\ tasks = [s \in Slots |-> Idle]
    /\ firstDirect = [pr \in Pairs |-> NoReply]

\* the four operations that dispatch content events, one request at a time,
\* while sockets start closing
NextContent ==
    \/ SocketClosing
    \/ SendStart(1, {Absent})
    \/ SendCreate
    \/ SendUpdateConversation
    \/ SendUpdateParticipant
    \/ DeleteStart(1)
    \/ DeleteUpdate
    \/ CallStart(1, {"audio"})
    \/ CallCreate
    \/ CallUpdateConversation
    \/ TypingStart(1)
    \/ TypingFindOthers
    \/ TypingNotify
    \/ Return

SpecContent == InitContent /\ [][NextContent]_vars

\* sockets opened with and without an authenticated user, closing, presence
\* writes completing, while messages are sent one request at a time
NextGuest ==
    \/ Connect
    \/ ConnectUnauthorized(1)
    \/ UnauthorizedClosed
    \/ SocketClosing
    \/ CloseListener
    \/ PresenceWrite
    \/ SendStart(1, {Absent})
    \/ SendCreate
    \/ SendUpdateConversation
    \/ SendUpdateParticipant
    \/ Return

SpecGuest == InitChat /\ [][NextGuest]_vars

\* sending, deleting and listing messages, one request at a time
NextGetMessages ==
    \/ Tick
    \/ SendStart(1, {Absent})
    \/ SendCreate
    \/ SendUpdateConversation
    \/ SendUpdateParticipant
    \/ DeleteStart(1)
    \/ DeleteUpdate
    \/ GetMessagesStart(1)
    \/ GetMessagesFindMany
    \/ GetMessagesUpdateParticipant
    \/ Return

SpecGetMessages == InitChat /\ [][NextGetMessages]_vars

\* ------------------------------------------------------------- claims
DirectOf(pr) == {c \in ConvIds : conversations[c].type = "direct" /\ ParticipantIds(c) = pr}

Done(s, op) == tasks[s].op = op /\ tasks[s].pc = "done"

\* C1: with createDirect calls run one after another, a call for a pair of users
\* that an earlier call (in either order) already answered returns the id the
\* first call returned and creates no conversation row and no participant row.
C1_SecondCallSameConversation ==
    \A s \in Slots :
        (Done(s, "createDirect") /\ tasks[s].status = "ok" /\ tasks[s].seen # NoReply)
        => /\ tasks[s].result = tasks[s].seen.id
           /\ conversations = tasks[s].pre.conversations
           /\ participants = tasks[s].pre.participants

\* a second call answered, made by the user the first call targeted
C1_Witness ==
    \E s \in Slots :
        /\ Done(s, "createDirect") /\ tasks[s].status = "ok"
        /\ tasks[s].seen # NoReply
        /\ tasks[s].seen.userId = tasks[s].arg

\* C2: in every reachable state, overlapping createDirect calls included, at most
\* one direct conversation exists for any unordered pair of users.
C2_AtMostOneDirectPerPair ==
    \A pr \in Pairs : Cardinality(DirectOf(pr)) <= 1

\* C3: createDirect on oneself always fails with InvalidArgument, on a user that
\* does not exist with NotFound, and in both cases no conversation and no
\* participant row is created.
C3_CreateDirectRejects ==
    \A s \in Slots :
        LET t == tasks[s]
        IN (t.op = "createDirect" /\ (t.userId = t.arg \/ t.arg \notin Users))
           => /\ t.pc = "done"
              /\ t.status = IF t.userId = t.arg THEN "InvalidArgument" ELSE "NotFound"
              /\ conversations = t.pre.conversations
              /\ participants = t.pre.participants

\* a self-targeted call rejected when conversations already exist
C3_Witness ==
    \E s \in Slots :
        /\ Done(s, "createDirect") /\ tasks[s].userId = tasks[s].arg
        /\ tasks[s].status = "InvalidArgument"
        /\ conversations # <<>>

\* the request in slot s takes the step that ends it
Finishes(s, op) == tasks[s].op = op /\ tasks[s].pc # "done" /\ tasks'[s].pc = "done"

\* socket w is OPEN and registered for one of the users
OpenFor(w, userIds) ==
    sockets[w].readyState = "OPEN" /\ \E u \in userIds \cap Users : w \in connections[u]

\* C4: at the step of a sendMessage that pushes new_message for message m to some
\* connection, the tables already hold m, the conversation's lastMessageAt is at
\* least m.createdAt and the sender's lastReadAt is at least m.createdAt.
C4_WritesBeforeDispatch ==
    [][\A s \in Slots :
        (/\ Finishes(s, "sendMessage")
         /\ tasks'[s].event.type = "new_message"
         /\ \E w \in Conns : tasks'[s].out[w] > 0)
        => LET t == tasks'[s]
               m == t.event.data.id
           IN /\ m \in 1..Len(messages')
              /\ messages'[m].conversationId = t.conversationId
              /\ conversations'[t.conversationId].lastMessageAt >= messages'[m].createdAt
              /\ \A p \in participants' :
                    (p.conversationId = t.conversationId /\ p.userId = t.userId)
                    => p.lastReadAt >= messages'[m].createdAt]_vars

\* C5: a successful sendMessage by u in c has created exactly one message, with
\* senderId u and status sent, and its new_message event, with the id and the
\* content of the response, was sent once to every socket that is OPEN and
\* registered for a participant of c other than u, and to no other socket.
C5_OneMessageOneEventEach ==
    [][\A s \in Slots :
        (Finishes(s, "sendMessage") /\ tasks'[s].status = "ok")
        => LET t == tasks'[s]
               m == t.result
           IN /\ Len(messages') = Len(t.pre.messages) + 1
              /\ \A o \in 1..Len(t.pre.messages) : messages'[o] = t.pre.messages[o]
              /\ m = Len(messages')
              /\ messages'[m].senderId = t.userId
              /\ messages'[m].conversationId = t.conversationId
              /\ messages'[m].status = "sent"
              /\ t.body.id = m /\ t.body.content = messages'[m].content
              /\ t.body.senderId = t.userId /\ t.body.status = "sent"
              /\ t.event.type = "new_message"
              /\ t.event.data.id = t.body.id
              /\ t.event.data.content = t.body.content
              /\ \A w \in Conns :
                    t.out[w] = IF OpenFor(w, ParticipantIds(t.conversationId) \ {t.userId})
                               THEN 1 ELSE 0]_vars

\* a message sent and pushed to a socket of another participant while a socket
\* of another participant that is registered but no longer OPEN got nothing
C5_Witness ==
    \E s \in Slots, w, v \in Conns :
        /\ Done(s, "sendMessage") /\ tasks[s].status = "ok"
        /\ tasks[s].out[w] = 1
        /\ tasks[s].out[v] = 0
        /\ sockets[v].readyState = "CLOSING"
        /\ sockets[v].userId \in ParticipantIds(tasks[s].conversationId) \ {tasks[s].userId}

\* C6: right after a successful sendMessage in c, getConversations reports for
\* every participant of c a lastMessageAt equal to the createdAt of the new
\* message, for every participant but the sender an unread count one higher than
\* before the send, and for the sender the count it reports without the new
\* message.
C6_ListReflectsSend ==
    \A s \in Slots :
        (Done(s, "sendMessage") /\ tasks[s].status = "ok")
        => LET t == tasks[s]
               c == t.conversationId
           IN \A p \in ParticipantIds(c) :
                /\ getConversations(Cur, p)[c].lastMessageAt = t.body.createdAt
                /\ p # t.userId =>
                    getConversations(Cur, p)[c].unreadCount
                        = getConversations(t.pre, p)[c].unreadCount + 1
                /\ p = t.userId =>
                    getConversations(Cur, p)[c].unreadCount
                        = UnreadCount([Cur EXCEPT !.messages = t.pre.messages], c, p)

\* C7: a sendMessage to a conversation that does not exist replies NotFound, by
\* a user who is not a participant Forbidden, with a replyToId that is given and
\* is not the id of a message of the conversation InvalidArgument; in each case
\* the tables are as before and no event is sent.
C7_SendRejects ==
    \A s \in Slots :
        LET t == tasks[s]
            c == t.conversationId
            expected ==
                IF c \notin 1..Len(t.pre.conversations) THEN "NotFound"
                ELSE IF \A p \in t.pre.participants :
                            ~(p.conversationId = c /\ p.userId = t.userId)
                     THEN "Forbidden"
                ELSE IF /\ t.arg # Absent
                        /\ \/ t.arg \notin 1..Len(t.pre.messages)
                           \/ t.pre.messages[t.arg].conversationId # c
                     THEN "InvalidArgument"
                ELSE "ok"
        IN (Done(s, "sendMessage") /\ expected # "ok")
           => /\ t.status = expected
              /\ messages = t.pre.messages
              /\ conversations = t.pre.conversations
              /\ participants = t.pre.participants
              /\ t.event = NoEvent
              /\ \A w \in Conns : t.out[w] = 0

\* C8: after a successful readMessages(u, c, X), every message of c with id <= X,
\* not sent by u, that was sent or delivered is read, and every other message is
\* as it was before.
C8_MarksReadUpToX ==
    \A s \in Slots :
        (Done(s, "readMessages") /\ tasks[s].status = "ok")
        => LET t == tasks[s]
           IN /\ Len(messages) = Len(t.pre.messages)
              /\ \A m \in MsgIds :
                    LET old == t.pre.messages[m]
                    IN IF /\ old.conversationId = t.conversationId
                          /\ m <= t.arg
                          /\ old.senderId # t.userId
                          /\ old.status \in {"sent", "delivered"}
                       THEN messages[m] = [old EXCEPT !.status = "read"]
                       ELSE messages[m] = old

\* a message was marked read while a later message of the same conversation, sent
\* by the same user, stays sent
C8_Witness ==
    \E s \in Slots, m, o \in MsgIds :
        /\ Done(s, "readMessages") /\ tasks[s].status = "ok"
        /\ m <= tasks[s].arg /\ tasks[s].arg < o
        /\ tasks[s].pre.messages[m].status = "sent" /\ messages[m].status = "read"
        /\ messages[o].conversationId = messages[m].conversationId
        /\ messages[o].senderId = messages[m].senderId
        /\ messages[o].status = "sent"

\* C9: after a successful readMessages(u, c, X), the lastReadAt of u in c is the
\* createdAt of message X when that message exists, and the time the call read
\* the clock when X is not given or names no message; every other participant
\* row is as it was before.
C9_LastReadAtOfCaller ==
    \A s \in Slots :
        (Done(s, "readMessages") /\ tasks[s].status = "ok")
        => LET t == tasks[s]
               others(P) == {p \in P : ~(p.conversationId = t.conversationId
                                          /\ p.userId = t.userId)}
           IN /\ LastReadAt(Cur, t.conversationId, t.userId)
                    = IF t.arg \in 1..Len(t.pre.messages)
                      THEN t.pre.messages[t.arg].createdAt
                      ELSE t.at
              /\ others(participants) = others(t.pre.participants)
              /\ Cardinality(participants) = Cardinality(t.pre.participants)

\* a call that named an existing message created before the time of the call
C9_Witness ==
    \E s \in Slots :
        /\ Done(s, "readMessages") /\ tasks[s].status = "ok"
        /\ tasks[s].arg \in MsgIds
        /\ messages[tasks[s].arg].createdAt < tasks[s].at
        /\ LastReadAt(Cur, tasks[s].conversationId, tasks[s].userId)
                = messages[tasks[s].arg].createdAt

\* C10: the step that ends a successful readMessages(r, c, X) sends message_read
\* with messageId X, conversationId c and readBy r once to every socket that is
\* OPEN and registered for the sender of X when X exists and its sender is not
\* r, and to no other socket; otherwise it sends no event.
C10_ReadReceiptToSender ==
    [][\A s \in Slots :
        (Finishes(s, "readMessages") /\ tasks'[s].status = "ok")
        => LET t == tasks'[s]
               X == t.arg
           IN IF X \in MsgIds /\ messages[X].senderId # t.userId
              THEN /\ t.event.type = "message_read"
                   /\ t.event.messageId = X
                   /\ t.event.conversationId = t.conversationId
                   /\ t.event.readBy = t.userId
                   /\ \A w \in Conns :
                        t.out[w] = IF OpenFor(w, {messages[X].senderId}) THEN 1 ELSE 0
              ELSE /\ t.event = NoEvent
                   /\ \A w \in Conns : t.out[w] = 0]_vars

\* a read receipt delivered to both sockets of the sender
C10_Witness ==
    \E s \in Slots :
        /\ Done(s, "readMessages") /\ tasks[s].status = "ok"
        /\ tasks[s].event.type = "message_read"
        /\ \A w \in Conns : tasks[s].out[w] = 1

\* C11: deleteMessage of an id that no message has replies NotFound, by a user
\* who is not the sender Forbidden (also when the message is already deleted),
\* both leaving the tables as they were and sending nothing; by the sender it
\* sets content to null and deletedAt, changes no other field and no other row,
\* and sends message_deleted once to every OPEN registered socket of the other
\* participants and to no other socket.
C11_SoftDelete ==
    \A s \in Slots :
        Done(s, "deleteMessage")
        => LET t == tasks[s]
               m == t.arg
               old == t.pre.messages
           IN IF m \notin 1..Len(old) \/ old[m].senderId # t.userId
              THEN /\ t.status = IF m \notin 1..Len(old) THEN "NotFound" ELSE "Forbidden"
                   /\ messages = old
                   /\ t.event = NoEvent
                   /\ \A w \in Conns : t.out[w] = 0
              ELSE /\ t.status = "ok"
                   /\ Len(messages) = Len(old)
                   /\ \A o \in MsgIds : o # m => messages[o] = old[o]
                   /\ messages[m].content = NullContent
                   /\ messages[m].deletedAt # NoTime
                   /\ messages[m] = [old[m] EXCEPT !.content = NullContent,
                                                    !.deletedAt = messages[m].deletedAt]
                   /\ t.event.type = "message_deleted"
                   /\ t.event.messageId = m
                   /\ t.event.conversationId = old[m].conversationId
                   /\ \A w \in Conns :
                        t.out[w] = IF OpenFor(w, ParticipantIds(old[m].conversationId)
                                                    \ {t.userId})
                                   THEN 1 ELSE 0

\* a user who is not the sender was refused the delete of a message that its
\* sender had already deleted
C11_Witness ==
    \E s \in Slots :
        /\ Done(s, "deleteMessage") /\ tasks[s].status = "Forbidden"
        /\ tasks[s].arg \in MsgIds
        /\ messages[tasks[s].arg].deletedAt # NoTime
        /\ messages[tasks[s].arg].content = NullContent

\* C12: no step of send, markRead, delete, initiateCall, updateCallStatus,
\* getMessages, getConversations or getConversation removes a message row or
\* changes the conversationId, senderId, receiverId, type, replyToId or createdAt
\* of a message that exists; ids are positions, so no id changes either.
C12_MessagesAppendOnly ==
    [][/\ Len(messages') >= Len(messages)
       /\ \A m \in 1..Len(messages) :
            /\ messages'[m].conversationId = messages[m].conversationId
            /\ messages'[m].senderId = messages[m].senderId
            /\ messages'[m].receiverId = messages[m].receiverId
            /\ messages'[m].type = messages[m].type
            /\ messages'[m].replyToId = messages[m].replyToId
            /\ messages'[m].createdAt = messages[m].createdAt]_vars

\* a call message that was read, completed and then deleted, replied to by a
\* message that exists
C12_Witness ==
    /\ Len(messages) = 2
    /\ messages[1].type = "call_audio"
    /\ messages[1].status = "read"
    /\ messages[1].callStatus = "completed"
    /\ messages[1].deletedAt # NoTime
    /\ messages[2].replyToId = 1

\* C13: the step of sendMessage that dispatches sends the event at most once to
\* a socket, and only to sockets that are registered for a target user and OPEN
\* at that step; it replies success and leaves the registry as it was, also when
\* a target user has no socket; and once the request has replied, no later step
\* (a connect of a target user included) sends its event to any socket.
C13_AtMostOnceNoRetry ==
    [][\A s \in Slots :
        /\ Finishes(s, "sendMessage") /\ tasks[s].pc = "updateParticipant"
           => /\ tasks'[s].status = "ok"
              /\ connections' = connections
              /\ \A w \in Conns :
                    /\ tasks'[s].out[w] \in {0, 1}
                    /\ tasks'[s].out[w] = 1
                        => OpenFor(w, tasks[s].parts \ {tasks[s].userId})
        /\ (tasks[s].pc = "done" /\ tasks'[s].pc = "done")
            => tasks'[s].out = tasks[s].out]_vars

\* user 2 had no socket when the message of user 1 in their direct conversation
\* was dispatched, and has an OPEN registered socket now
C13_Witness ==
    \E s \in Slots, w \in Conns :
        /\ Done(s, "sendMessage") /\ tasks[s].status = "ok"
        /\ tasks[s].conversationId = 1 /\ tasks[s].userId = 1
        /\ \A v \in Conns : tasks[s].out[v] = 0
        /\ OpenFor(w, {2})

\* C14: when the three writes of a sendMessage have succeeded, the request
\* replies success even if the send to a socket throws, and every other OPEN
\* registered socket of the other participants is still sent the event.
C14_DispatchFailureNotEscalated ==
    [][\A s \in Slots :
        (Finishes(s, "sendMessage") /\ tasks[s].pc = "updateParticipant")
        => /\ tasks'[s].status = "ok"
           /\ \A w \in Conns :
                (OpenFor(w, tasks[s].parts \ {tasks[s].userId}) /\ w \notin tasks'[s].ids)
                => tasks'[s].out[w] = 1]_vars

\* C15: after every addConnection or removeConnection call, the registry holds
\* for each user exactly the sockets added for that user and not removed since,
\* and the call has changed the entry of no user but the one it names.
C15_RegistryIsAddedMinusRemoved ==
    [][/\ \A u \in Users : connections'[u] = {w \in Conns : <<u, w>> \in held'}
       /\ \A u \in Users : connections'[u] # connections[u] => tasks'[1].userId = u]_vars

\* a socket was added a second time for a user who has two sockets, while
\* another user has none
C15_Witness ==
    \E u, v \in Users :
        /\ tasks[1].op = "addConnection" /\ tasks[1].status = "held"
        /\ tasks[1].userId = u
        /\ connections[u] = Conns
        /\ connections[v] = {}

\* C16: the step in which a socket of user u closes removes the socket from the
\* entry of u, leaves every other entry alone, and issues the offline write of u
\* if the entry of u is empty after the removal, and no write at all otherwise.
C16_OfflineIffLastClosed ==
    [][\A w \in Conns :
        (sockets[w].readyState # "CLOSED" /\ sockets'[w].readyState = "CLOSED")
        => LET u == sockets[w].userId
           IN /\ connections' = [connections EXCEPT ![u] = @ \ {w}]
              /\ connections'[u] = {}
                    => /\ [userId |-> u, status |-> "offline", at |-> now] \in pending'
                       /\ pending' \ pending \subseteq
                            {[userId |-> u, status |-> "offline", at |-> now]}
              /\ connections'[u] # {} => pending' = pending
              /\ pending \subseteq pending']_vars

\* user u closed one of two sockets: the other is registered, no offline write
\* is pending and the persisted status is online
C16_Witness ==
    \E w, v \in Conns :
        /\ sockets[w].readyState = "CLOSED"
        /\ sockets[v].readyState = "OPEN"
        /\ sockets[v].userId = sockets[w].userId
        /\ connections[sockets[v].userId] = {v}
        /\ \A wr \in pending : wr.status # "offline"
        /\ userStatus[sockets[v].userId].status = "online"

\* C17: a step in which a presence write completes, applied or failed, changes
\* no socket and no registry entry; and a dispatch of sendMessage sends the event
\* to every OPEN registered socket of the other participants, whatever the
\* persisted status of their users says.
C17_PresenceFailureKeepsConnection ==
    [][/\ (pending' \subseteq pending /\ pending' # pending)
            => (connections' = connections /\ sockets' = sockets)
       /\ \A s \in Slots :
            (Finishes(s, "sendMessage") /\ tasks[s].pc = "updateParticipant")
            => \A w \in Conns :
                    OpenFor(w, tasks[s].parts \ {tasks[s].userId}) => tasks'[s].out[w] = 1]_vars

\* the only socket ever opened is one of user 2, its online write failed (none is
\* pending and the persisted status is offline), and it was sent a message
C17_Witness ==
    \E s \in Slots, w \in Conns :
        /\ Done(s, "sendMessage") /\ tasks[s].out[w] = 1
        /\ sockets[w].userId = 2 /\ sockets[w].readyState = "OPEN"
        /\ \A v \in Conns \ {w} : sockets[v].readyState = "NONE"
        /\ pending = {}
        /\ userStatus[2].status = "offline"

\* C18: a step that changes the status or lastActiveAt of any user is the
\* completion of one presence write issued by a connect or a disconnect: it
\* applies exactly that write, and it is no step of createDirect, createGroup,
\* sendMessage, markRead, deleteMessage, getMessages, initiateCall,
\* updateCallStatus, typing or ping (tasks and tables stay as they are).
C18_StatusOnlyByPresence ==
    [][userStatus' # userStatus =>
        /\ tasks' = tasks
        /\ chat' = chat
        /\ live' = live
        /\ \E wr \in pending :
            /\ pending' = pending \ {wr}
            /\ userStatus' = [userStatus EXCEPT ![wr.userId] =
                    [status |-> wr.status, lastActiveAt |-> wr.at]]]_vars

C18_Witness ==
    /\ userStatus[2] = [status |-> "offline", lastActiveAt |-> 1]
    /\ Len(conversations) = 2
    /\ \E i \in MsgIds : IsCall(messages[i]) /\ messages[i].callStatus = "answered"
    /\ Done(1, "ping")

\* C19: initiateCall by a participant u of c appends exactly one message: of the
\* call type that was requested, in c, with senderId u, callStatus missed and
\* receiverId the other participant when c is direct, null when c is a group;
\* when it replies, c.lastMessageAt is the createdAt of that message and
\* incoming_call for it was sent once to every socket that is OPEN and registered
\* for a participant of c other than u, and to no other socket.  A caller who
\* is no participant of c (or names no conversation) gets an error reply; no row
\* is created or changed and nothing is sent.
C19_InitiateCall ==
    [][\A s \in Slots :
        /\ (tasks[s].op = "initiateCall" /\ tasks[s].pc = "create"
                /\ tasks'[s] # tasks[s])
           => LET t == tasks[s]
                  m == messages'[Len(messages')]
              IN /\ Len(messages') = Len(messages) + 1
                 /\ m.type = (IF t.body.callType = "audio" THEN "call_audio"
                              ELSE "call_video")
        /\ Finishes(s, "initiateCall")
           => LET t == tasks'[s]
                  u == t.userId
                  c == t.conversationId
                  pre == t.pre
              IN IF c \in 1..Len(pre.conversations)
                    /\ \E p \in pre.participants : p.conversationId = c /\ p.userId = u
                 THEN LET others == {p.userId : p \in {q \in pre.participants :
                                        q.conversationId = c /\ q.userId # u}}
                          id == Len(messages')
                          m == messages'[id]
                      IN /\ t.status = "ok" /\ t.result = id
                         /\ Len(messages') = Len(pre.messages) + 1
                         /\ \A o \in 1..Len(pre.messages) : messages'[o] = pre.messages[o]
                         /\ IsCall(m)
                         /\ m.conversationId = c /\ m.senderId = u
                         /\ m.callStatus = "missed"
                         /\ IF pre.conversations[c].type = "direct"
                            THEN others = {m.receiverId}
                            ELSE m.receiverId = NoId
                         /\ conversations'[c].lastMessageAt = m.createdAt
                         /\ \A o \in 1..Len(pre.conversations) :
                                o # c => conversations'[o] = pre.conversations[o]
                         /\ participants' = pre.participants
                         /\ t.event.type = "incoming_call" /\ t.event.data.id = id
                         /\ \A w \in Conns :
                                t.out[w] = IF OpenFor(w, others) THEN 1 ELSE 0
                 ELSE /\ t.status \in {"NotFound", "Forbidden"}
                      /\ messages' = pre.messages
                      /\ conversations' = pre.conversations
                      /\ participants' = pre.participants
                      /\ t.event = NoEvent
                      /\ \A w \in Conns : t.out[w] = 0]_vars

\* a call of user 1 in the direct conversation that reached the OPEN socket of
\* user 2 and not the CLOSING one
C19_Witness ==
    \E s \in Slots, w, v \in Conns :
        /\ Done(s, "initiateCall") /\ tasks[s].status = "ok"
        /\ tasks[s].userId = 1 /\ tasks[s].conversationId = 1
        /\ messages[tasks[s].result].receiverId = 2
        /\ tasks[s].out[w] = 1 /\ tasks[s].out[v] = 0
        /\ sockets[v] = [userId |-> 2, readyState |-> "CLOSING"]

\* C20: updateCallStatus replies NotFound when no message has the id or the
\* message is no call, and Forbidden when the caller is neither the sender nor
\* the receiver of the call; in both cases no message row changes (callStatus,
\* callDuration and callEndedAt stay) and nothing is sent.  When a party of the
\* call succeeds, call_status_changed goes once to every OPEN registered socket
\* of the other party and to no socket of anyone else.
C20_UpdateCallStatus ==
    [][\A s \in Slots :
        Finishes(s, "updateCallStatus")
        => LET t == tasks'[s]
               u == t.userId
               id == t.arg
               pre == t.pre
           IN IF id \notin 1..Len(pre.messages) \/ ~IsCall(pre.messages[id])
              THEN /\ t.status = "NotFound"
                   /\ messages' = pre.messages
                   /\ t.event = NoEvent
                   /\ \A w \in Conns : t.out[w] = 0
              ELSE IF u \notin {pre.messages[id].senderId, pre.messages[id].receiverId}
              THEN /\ t.status = "Forbidden"
                   /\ messages' = pre.messages
                   /\ t.event = NoEvent
                   /\ \A w \in Conns : t.out[w] = 0
              ELSE LET m == pre.messages[id]
                       other == IF u = m.senderId THEN m.receiverId ELSE m.senderId
                   IN /\ t.status = "ok"
                      /\ other # NoId =>
                            /\ t.event.type = "call_status_changed"
                            /\ t.event.messageId = id
                            /\ t.event.status = messages'[id].callStatus
                      /\ \A w \in Conns :
                            t.out[w] = IF OpenFor(w, {other}) THEN 1 ELSE 0]_vars

\* user 3 was refused on a direct call between users 1 and 2 after one of them
\* had answered it
C20_Witness ==
    \E s \in Slots :
        /\ Done(s, "updateCallStatus") /\ tasks[s].status = "Forbidden"
        /\ tasks[s].userId = 3
        /\ tasks[s].arg \in MsgIds
        /\ messages[tasks[s].arg].receiverId \in {1, 2}
        /\ messages[tasks[s].arg].callStatus = "answered"

\* C21: every change of the callStatus of a call message is one of
\* missed -> answered, missed -> rejected, answered -> completed; so completed is
\* reached only from answered, and rejected and completed are never left.
C21_CallStateMachine ==
    [][\A i \in MsgIds :
        (IsCall(messages[i]) /\ messages'[i].callStatus # messages[i].callStatus)
        => <<messages[i].callStatus, messages'[i].callStatus>>
                \in {<<"missed", "answered">>, <<"missed", "rejected">>,
                     <<"answered", "completed">>}]_vars

\* C22: a createGroup of u that succeeds has created one group whose members
\* include u, u being its only owner and every other member having role member,
\* and one conversation of type group that references this group and has
\* exactly one participant row per member and no other; its
\* group_conversation_created event was sent once to every socket that is OPEN
\* and registered for a member other than u, and to no socket of u or of
\* anyone else.
C22_CreateGroup ==
    [][\A s \in Slots :
        (Finishes(s, "createGroup") /\ tasks'[s].status = "ok")
        => LET t == tasks'[s]
               u == t.userId
               c == t.result
               g == conversations'[c].groupId
               memberIds == {m.userId : m \in groups'[g].members}
           IN /\ Len(conversations') = Len(t.pre.conversations) + 1
              /\ c = Len(conversations')
              /\ \A o \in 1..Len(t.pre.conversations) :
                    conversations'[o] = t.pre.conversations[o]
              /\ conversations'[c].type = "group"
              /\ g \in 1..Len(groups')
              /\ \A o \in 1..Len(conversations') : o # c => conversations'[o].groupId # g
              /\ groups'[g].creatorId = u
              /\ u \in memberIds /\ t.ids = memberIds
              /\ \A m \in groups'[g].members :
                    m.role = (IF m.userId = u THEN "owner" ELSE "member")
              /\ Cardinality(groups'[g].members) = Cardinality(memberIds)
              /\ {p.userId : p \in {q \in participants' : q.conversationId = c}} = memberIds
              /\ Cardinality({p \in participants' : p.conversationId = c})
                    = Cardinality(memberIds)
              /\ {p \in participants' : p.conversationId # c} = t.pre.participants
              /\ t.event.type = "group_conversation_created"
              /\ t.event.conversationId = c
              /\ \A w \in Conns :
                    t.out[w] = IF OpenFor(w, memberIds \ {u}) THEN 1 ELSE 0]_vars

\* a group created by a user who has an OPEN socket: the socket of another
\* member got the event, the creator's socket got nothing
C22_Witness ==
    \E s \in Slots, w, v \in Conns :
        /\ Done(s, "createGroup") /\ tasks[s].status = "ok"
        /\ sockets[w] = [userId |-> tasks[s].userId, readyState |-> "OPEN"]
        /\ tasks[s].out[w] = 0
        /\ sockets[v].userId \in tasks[s].ids \ {tasks[s].userId}
        /\ tasks[s].out[v] = 1

\* C23: in every state, every group row has its group conversation with one
\* participant row per member, unless the createGroup that made it is still
\* between its two writes; every group conversation has its group row; and a
\* createGroup that replied with an error has left no group row behind.
C23_GroupAllOrNothing ==
    /\ \A g \in 1..Len(groups) :
        \/ \E c \in ConvIds :
            /\ conversations[c].type = "group" /\ conversations[c].groupId = g
            /\ ParticipantIds(c) = {m.userId : m \in groups[g].members}
        \/ \E s \in Slots :
            /\ tasks[s].op = "createGroup" /\ tasks[s].pc = "createConversation"
            /\ tasks[s].result = g
    /\ \A c \in ConvIds :
        conversations[c].type = "group" => conversations[c].groupId \in 1..Len(groups)
    /\ \A s \in Slots :
        (Done(s, "createGroup") /\ tasks[s].status # "ok")
        => tasks[s].arg \notin 1..Len(groups)

\* C24: a sendMessage or an initiateCall that replies with an Internal error has
\* left the tables as they were when it started: no message row of the call is
\* persisted, and no lastMessageAt and no lastReadAt has changed.
C24_SendWritesTransactional ==
    [][\A s \in Slots :
        ((Finishes(s, "sendMessage") \/ Finishes(s, "initiateCall"))
            /\ tasks'[s].status = "Internal")
        => /\ messages' = tasks'[s].pre.messages
           /\ conversations' = tasks'[s].pre.conversations
           /\ participants' = tasks'[s].pre.participants]_vars

\* C25: the lastMessage that getConversations reports for a conversation is a
\* newest message among those of the conversation that are not soft-deleted,
\* and null when the conversation has no such message; it is never a
\* soft-deleted message.
C25_LastMessageNotDeleted ==
    \A s \in Slots :
        (Done(s, "getConversations") /\ tasks[s].status = "ok")
        => \A c \in DOMAIN tasks[s].body.lastMessage :
            LET kept == {m \in MsgIds : /\ messages[m].conversationId = c
                                        /\ messages[m].deletedAt = NoTime}
                last == tasks[s].body.lastMessage[c]
            IN IF kept = {} THEN last = NoId
               ELSE /\ last \in kept
                    /\ \A o \in kept : messages[o].createdAt <= messages[last].createdAt

\* C26: the unread count that getConversations and getConversation report to
\* user u for conversation c is the number of messages that c holds at the time
\* of the query with createdAt later than the lastReadAt of u's participant row
\* and a sender other than u; so the two operations report the same count in
\* the same state.
C26_UnreadCountDerived ==
    \A s \in Slots :
        LET t == tasks[s]
            count(c) ==
                Cardinality({m \in MsgIds :
                    /\ messages[m].conversationId = c
                    /\ messages[m].senderId # t.userId
                    /\ \E p \in participants :
                        /\ p.conversationId = c /\ p.userId = t.userId
                        /\ messages[m].createdAt > p.lastReadAt})
        IN /\ (Done(s, "getConversations") /\ t.status = "ok")
              => /\ DOMAIN t.body.list = {c \in ConvIds : t.userId \in ParticipantIds(c)}
                 /\ \A c \in DOMAIN t.body.list : t.body.list[c].unreadCount = count(c)
           /\ (Done(s, "getConversation") /\ t.status = "ok")
              => t.body.unreadCount = count(t.conversationId)

\* a list query that reports one unread message out of two for user 2, the
\* other one read earlier
C26_Witness ==
    \E s \in Slots :
        /\ Done(s, "getConversations") /\ tasks[s].userId = 2
        /\ tasks[s].body.list[1].unreadCount = 1
        /\ Len(messages) = 2
        /\ messages[1].senderId = 1 /\ messages[2].senderId = 1

\* C27: the step that handles an unparseable frame on socket w sends one error
\* frame on w and nothing on any other socket, and the step that handles a ping
\* on w sends one pong on w and nothing on any other socket; in both steps the
\* tables, the presence columns, the registry and the sockets stay as they are,
\* so w is still OPEN and registered and is served by the dispatches that follow.
C27_FramesAnsweredInPlace ==
    [][\A s \in Slots :
        /\ (tasks[s].op = "idle" /\ tasks'[s].op \in {"badFrame", "ping"})
           => LET t == tasks'[s]
                  w == t.arg
              IN /\ t.pc = "done"
                 /\ t.event.type = (IF t.op = "ping" THEN "pong" ELSE "error")
                 /\ \A v \in Conns : t.out[v] = IF v = w THEN 1 ELSE 0
                 /\ chat' = chat /\ presence' = presence
                 /\ connections' = connections /\ sockets' = sockets
                 /\ sockets'[w].readyState = "OPEN"
                 /\ w \in connections'[t.userId]
        /\ (Finishes(s, "sendMessage") /\ tasks'[s].status = "ok")
           => \A w \in Conns :
                OpenFor(w, ParticipantIds(tasks'[s].conversationId) \ {tasks'[s].userId})
                => tasks'[s].out[w] = 1]_vars

\* the error frame went out on socket 2 of user 2 and the socket is still OPEN
\* and registered, after a message had been stored for the conversation
C27_Witness ==
    \E s \in Slots :
        /\ Done(s, "badFrame") /\ tasks[s].arg = 2
        /\ tasks[s].out = [v \in Conns |-> IF v = 2 THEN 1 ELSE 0]
        /\ sockets[2] = [userId |-> 2, readyState |-> "OPEN"]
        /\ 2 \in connections[2]
        /\ Len(messages) = 1

\* C28: the write of an updateCallStatus whose status is completed and that
\* carries a duration, whatever its value (0 included), sets callDuration to
\* that duration and callEndedAt to the current time; the write of any other
\* updateCallStatus leaves callDuration and callEndedAt as they were.
C28_DurationRecorded ==
    [][\A s \in Slots :
        (tasks[s].op = "updateCallStatus" /\ tasks[s].pc = "update"
            /\ tasks'[s].pc = "done" /\ tasks'[s].status = "ok")
        => LET t == tasks[s]
               id == t.arg
           IN IF t.body.status = "completed" /\ t.body.duration # Absent
              THEN /\ messages'[id].callDuration = t.body.duration
                   /\ messages'[id].callEndedAt = now
              ELSE /\ messages'[id].callDuration = messages[id].callDuration
                   /\ messages'[id].callEndedAt = messages[id].callEndedAt]_vars

\* C29: in every state every conversation has at least one participant row, no
\* two participant rows have the same conversation and user, and a conversation
\* of type direct has exactly two rows, of two different users; and the step
\* that adds a conversation adds its participant rows with it: no conversation
\* gains or loses a participant in a later step.
C29_ParticipantsWithConversation ==
    [][LET rows(P, c) == {p \in P : p.conversationId = c}
           wellFormed(C, P) ==
                /\ \A p \in P : p.conversationId \in 1..Len(C)
                /\ \A c \in 1..Len(C) :
                    /\ rows(P, c) # {}
                    /\ \A p, q \in rows(P, c) : p.userId = q.userId => p = q
                    /\ C[c].type = "direct" => Cardinality(rows(P, c)) = 2
       IN /\ wellFormed(conversations, participants)
          /\ wellFormed(conversations', participants')
          /\ \A c \in ConvIds :
                {p.userId : p \in rows(participants', c)}
                    = {p.userId : p \in rows(participants, c)}]_vars

\* a direct conversation and a group conversation, each with its rows
C29_Witness ==
    \E c, d \in ConvIds :
        /\ conversations[c].type = "direct" /\ Cardinality(ParticipantIds(c)) = 2
        /\ conversations[d].type = "group" /\ Cardinality(ParticipantIds(d)) = 3

\* C30: no step of sendMessage, getMessages or markRead lowers the lastReadAt
\* of a participant row: its value after the step is at least its value before.
C30_LastReadAtMonotone ==
    [][\A p \in participants : \A q \in participants' :
        (q.conversationId = p.conversationId /\ q.userId = p.userId)
        => q.lastReadAt >= p.lastReadAt]_vars

\* C31: whenever no sendMessage and no initiateCall is between its first step
\* and its reply on conversation c, the lastMessageAt of c is the greatest
\* createdAt among the messages of c, and null when c has no message.
C31_LastMessageAtIsNewest ==
    \A c \in ConvIds :
        (\A s \in Slots :
            ~(/\ tasks[s].op \in {"sendMessage", "initiateCall"}
              /\ tasks[s].pc # "done"
              /\ tasks[s].conversationId = c))
        => LET ms == {m \in MsgIds : messages[m].conversationId = c}
           IN IF ms = {} THEN conversations[c].lastMessageAt = NoTime
              ELSE /\ \E m \in ms : conversations[c].lastMessageAt = messages[m].createdAt
                   /\ \A m \in ms : messages[m].createdAt <= conversations[c].lastMessageAt

\* C32: whenever no presence write is pending (and none has failed), the
\* persisted status of every user is online if and only if the registry holds a
\* connection of the user.
C32_StatusMatchesRegistry ==
    pending = {}
    => \A u \in Users : (userStatus[u].status = "online") <=> (connections[u] # {})

\* C33: a markRead by a user who is no participant of the conversation it names,
\* the conversation existing, leaves the tables as they were when it started:
\* no message has changed its status, no lastReadAt has changed; and no
\* message_read event was sent.
C33_MarkReadByOutsider ==
    [][\A s \in Slots :
        Finishes(s, "readMessages")
        => LET t == tasks'[s]
               c == t.conversationId
           IN (/\ c \in 1..Len(t.pre.conversations)
               /\ ~\E p \in t.pre.participants :
                        p.conversationId = c /\ p.userId = t.userId)
              => /\ messages' = t.pre.messages
                 /\ participants' = t.pre.participants
                 /\ \A w \in Conns : t.out[w] = 0]_vars

\* C34: a message_read event that names conversation c and message X is about a
\* message of c and goes only to sockets of participants of c; and the
\* lastReadAt that markRead on c takes from a message is the createdAt of a
\* message of c.
C34_ReadEventWithinConversation ==
    [][\A s \in Slots :
        /\ (Finishes(s, "readMessages") /\ tasks'[s].event.type = "message_read")
           => LET e == tasks'[s].event
              IN /\ e.messageId \in MsgIds
                 /\ messages[e.messageId].conversationId = e.conversationId
                 /\ \A w \in Conns :
                        tasks'[s].out[w] > 0
                        => sockets[w].userId \in ParticipantIds(e.conversationId)
        /\ (tasks[s].op = "readMessages" /\ tasks[s].pc = "findLast"
                /\ tasks'[s].pc = "updateParticipant" /\ tasks[s].arg \in MsgIds)
           => messages[tasks[s].arg].conversationId = tasks[s].conversationId]_vars

\* C35: for two messages m1, m2 of one conversation with m1.id < m2.id, a socket
\* that receives the new_message event of both receives m1's first: no
\* sendMessage delivers m1 to a socket after another sendMessage has already
\* delivered a later message of the same conversation to that socket.
C35_NewMessageInIdOrder ==
    [][\A s, r \in Slots :
        (/\ Finishes(s, "sendMessage") /\ tasks'[s].status = "ok"
         /\ Done(r, "sendMessage") /\ tasks[r].status = "ok"
         /\ tasks[r].conversationId = tasks'[s].conversationId
         /\ tasks[r].result > tasks'[s].result)
        => \A w \in Conns : ~(tasks[r].out[w] > 0 /\ tasks'[s].out[w] > 0)]_vars

\* C36: a new_message, message_deleted, incoming_call or user_typing event is
\* pushed only to sockets registered for participants of the conversation it
\* is about and never to a socket registered for the acting user; a typing
\* frame from a user who is no participant of the conversation causes no event.
C36_ContentEventsToOtherParticipants ==
    [][\A s \in Slots :
        LET t == tasks'[s]
        IN /\ (/\ \E op \in {"sendMessage", "deleteMessage", "initiateCall", "typing"} :
                        Finishes(s, op)
               /\ t.event # NoEvent)
              => \A w \in Conns :
                    t.out[w] > 0
                    => /\ \E u \in ParticipantIds(t.conversationId) : w \in connections[u]
                       /\ w \notin connections[t.userId]
           /\ (Finishes(s, "typing") /\ t.userId \notin ParticipantIds(t.conversationId))
              => t.event = NoEvent /\ \A w \in Conns : t.out[w] = 0]_vars

\* a message was deleted by a user who holds a registered open socket: the
\* event reached another participant's socket
C36_Witness ==
    \E s \in Slots, w, v \in Conns :
        /\ Done(s, "deleteMessage") /\ tasks[s].event # NoEvent
        /\ tasks[s].event.type = "message_deleted"
        /\ tasks[s].out[w] > 0
        /\ v \in connections[tasks[s].userId] /\ sockets[v].readyState = "OPEN"

\* C37: a socket opened by a request without an authenticated user id gets one
\* error frame and is closed, is never in the registry, causes no presence
\* write and receives no dispatched event; every socket in the registry is
\* stored under the user id of the request that opened it.
C37_UnauthorizedNeverRegistered ==
    [][/\ \A w \in Conns, u \in Users :
            w \in connections'[u] => sockets'[w].userId = u /\ <<u, w>> \in held'
       /\ \A s \in Slots :
            (tasks[s].op # "connect" /\ tasks'[s].op = "connect")
            => LET w == tasks'[s].arg
               IN /\ tasks'[s].event.type = "error"
                  /\ \A v \in Conns : tasks'[s].out[v] = IF v = w THEN 1 ELSE 0
                  /\ sockets'[w].readyState \in {"CLOSING", "CLOSED"}
                  /\ connections' = connections
                  /\ pending' = pending /\ userStatus' = userStatus
       /\ \A s \in Slots, w \in Conns :
            (/\ tasks[s].pc # "done" /\ tasks'[s].pc = "done"
             /\ tasks'[s].op # "connect"
             /\ sockets'[w].readyState # "NONE" /\ sockets'[w].userId = NoId)
            => tasks'[s].out[w] = 0]_vars

\* a request without a user id was rejected on a socket while another socket is
\* registered
C37_Witness ==
    \E s \in Slots, v \in Conns, u \in Users :
        /\ Done(s, "connect") /\ tasks[s].out[tasks[s].arg] = 1
        /\ sockets[tasks[s].arg].readyState = "CLOSING"
        /\ v \in connections[u]

\* C38: getMessages on conversation c answers a participant with messages of c
\* whose deletedAt is null and nothing else, changes no message row and no
\* participant row but the caller's own lastReadAt; it answers a user who is no
\* participant with NotFound, returns no message and changes no lastReadAt.
C38_GetMessagesOwnConversation ==
    [][\A s \in Slots :
        (tasks[s].pc # "done" /\ tasks'[s].pc = "done" /\ tasks'[s].op = "getMessages")
        => LET t == tasks'[s]
               Own(p) == p.conversationId = t.conversationId /\ p.userId = t.userId
               isParticipant == \E p \in t.pre.participants : Own(p)
           IN /\ messages' = t.pre.messages
              /\ ~isParticipant
                 => /\ t.status = "NotFound" /\ t.body = NoBody
                    /\ participants' = t.pre.participants
              /\ isParticipant
                 => /\ t.status = "ok"
                    /\ \A m \in t.body.ids :
                        /\ m \in 1..Len(messages')
                        /\ messages'[m].conversationId = t.conversationId
                        /\ messages'[m].deletedAt = NoTime
                    /\ {p \in participants' : ~Own(p)} = {p \in t.pre.participants : ~Own(p)}
                    /\ Cardinality({p \in participants' : Own(p)}) = 1]_vars

\* a participant listed a conversation that holds a deleted message and one that
\* is not deleted, and the caller's lastReadAt moved
C38_Witness ==
    \E s \in Slots, m, d \in MsgIds :
        /\ Done(s, "getMessages") /\ tasks[s].status = "ok"
        /\ m \in tasks[s].body.ids
        /\ messages[d].conversationId = tasks[s].conversationId
        /\ messages[d].deletedAt # NoTime
        /\ d \notin tasks[s].body.ids
        /\ participants # tasks[s].pre.participants

\* C39: a user who received the incoming_call event of a call can change that
\* call's status: updateCallStatus by a participant of the call's conversation
\* other than the caller, whose socket was open when the call was dispatched,
\* succeeds, and the change is pushed to the open sockets of the other
\* participants.
C39_CalleesCanUpdateCall ==
    [][\A s \in Slots :
        (tasks[s].pc # "done" /\ tasks'[s].pc = "done" /\ tasks'[s].op = "updateCallStatus")
        => LET t == tasks'[s]
               before == t.pre.messages
           IN (/\ t.arg \in 1..Len(before)
               /\ IsCall(before[t.arg])
               /\ t.userId \in ParticipantIds(before[t.arg].conversationId)
                                    \ {before[t.arg].senderId}
               /\ \E w \in connections[t.userId] : sockets[w].readyState = "OPEN")
              => /\ t.status = "ok"
                 /\ \A u \in ParticipantIds(before[t.arg].conversationId) \ {t.userId} :
                        \A w \in connections[u] :
                            sockets[w].readyState = "OPEN" => t.out[w] > 0]_vars

====
